---------------------------- MODULE Spec2Model ----------------------------
(***************************************************************************)
(* A model of ciwatch_mcp: the test-history resource budget and history    *)
(* engine (test_history.py), the timeline assessor (assessment.py), the    *)
(* failure classifier (classify.py), the fingerprint normalizer            *)
(* (fingerprint.py), the pytest log parser (normalize.py) and the tools    *)
(* of server.py.                                                           *)
(*                                                                         *)
(* The specifications share the module's variables:                        *)
(*   SpecBudget      - arbitrary can_fetch_log / record_log_fetch calls on *)
(*                     one ResourceBudget;                                 *)
(*   SpecHistory     - one get_test_history invocation, one API call a     *)
(*                     step;                                               *)
(*   SpecHistoryLive - SpecHistory with the invocation running on;         *)
(*   SpecAssess      - assess_test_history applied to bounded timelines;   *)
(*   SpecClassify    - classify_failure applied to bounded failures;       *)
(*   SpecDedup       - deduplicate_failures applied to classifications;    *)
(*   SpecScan        - one scan_latest_nightly or scan_build invocation;   *)
(*   SpecSelect      - the build selection of scan_latest_nightly;         *)
(*   SpecMatch       - _match_job_by_name applied to bounded job lists;    *)
(*   SpecDispatch    - the try/except structure of the seven tools;        *)
(*   SpecDispatchLive- SpecDispatch with the tool running on;              *)
(*   SpecNormalize   - normalize_failure_fingerprint applied to messages;  *)
(*   SpecKey         - generate_failure_key applied to two failures;       *)
(*   SpecExtract     - extract_test_failures_from_log applied to logs;     *)
(*   SpecOrder       - the same on logs of several status lines;           *)
(*   SpecOutcome     - find_test_outcome_in_log for the names extracted;   *)
(*   SpecJobCap      - SpecHistory on builds with more than 20 jobs;       *)
(*   SpecPair        - two interleaved get_test_history invocations;       *)
(*   SpecEither      - one build scan or one get_test_history invocation;  *)
(*   SpecBulk        - the matching loop of get_test_analytics_bulk.       *)
(***************************************************************************)
EXTENDS Integers, Sequences, FiniteSets, TLC

VARIABLES
    budget,         \* the ResourceBudget object
    call,           \* SpecBudget: the last call made on the budget and its return
    denied,         \* SpecBudget: the estimates can_fetch_log has denied so far
    firstDenial,    \* SpecBudget: total_log_bytes at the first denial, -1 before it
    pc,             \* position of get_test_history, or of the function call
    builds_parsed,  \* SpecHistory: the parsed builds, sorted
    bi,             \* SpecHistory: index of the build being scanned
    failed_jobs,    \* SpecHistory: failed partition of the current build
    passed_jobs,    \* SpecHistory: passed partition of the current build
    ji,             \* SpecHistory: index of the next job of the partition
    outcome,        \* SpecHistory: the TestOutcome of the current build
    timeline,       \* SpecHistory: the timeline built so far
    result,         \* SpecHistory: what get_test_history returned
    fetches,        \* SpecHistory: the get_job_log calls made so far
    arg,            \* the input of the function or of the tool
    ret,            \* what the function returned
    builds_data,    \* SpecScan: the builds list_builds answered with
    scan_build_number, \* SpecScan: the number of the build that is scanned
    scan_build_info,\* SpecScan: the BuildInfo of the build that is scanned
    job_infos,      \* SpecScan: the parsed jobs of the build
    all_failures,   \* SpecScan: the classified failures collected so far
    step,           \* SpecDispatch: the collaborator calls the tool has made
    suspended       \* SpecPair: the one of two get_test_history invocations that waits

vars == <<budget, call, denied, firstDenial, pc, builds_parsed, bi, failed_jobs,
          passed_jobs, ji, outcome, timeline, result, fetches, arg, ret,
          builds_data, scan_build_number, scan_build_info, job_infos,
          all_failures, step, suspended>>

budgetVars == <<budget, call, denied, firstDenial>>
toolVars == <<builds_data, scan_build_number, scan_build_info, job_infos,
              all_failures, step, suspended>>
scanVars == <<builds_parsed, bi, failed_jobs, passed_jobs, ji, outcome,
              timeline, result, fetches, toolVars>>
historyVars == <<pc, scanVars>>
callVars == <<arg, ret>>

None == "None"

(***************************************************************************)
(* Program constants (config.py).                                          *)
(***************************************************************************)
MAX_JOBS_PER_BUILD_FOR_TEST_HISTORY == 20
MAX_LOG_BYTES_FOR_TEST_HISTORY == 200000
ESTIMATED_LOG_SIZE_PER_JOB == 10000

(***************************************************************************)
(* Bounds of the model.                                                    *)
(***************************************************************************)
MaxBudget == 5      \* SpecBudget: max_log_bytes is drawn from 1..MaxBudget
MaxEstimate == 4    \* SpecBudget: estimated_size is drawn from 0..MaxEstimate
MaxActual == 3      \* SpecBudget: actual_size is drawn from 0..MaxActual
MaxTotal == 8       \* SpecBudget: record_log_fetch is cut off above this total
MaxEntries == 7     \* SpecAssess: a timeline has at most MaxEntries entries
MaxBuilds == 2      \* SpecHistory: list_builds returns at most MaxBuilds builds
MaxJobs == 2        \* SpecHistory: a build has at most MaxJobs jobs
MaxTime == 2        \* SpecHistory: created_at is drawn from 1..MaxTime
MaxFailures == 3    \* SpecDedup: a list has at most MaxFailures classifications

(***************************************************************************)
(* ResourceBudget (test_history.py).  A warning is kept as a record of the *)
(* values its text is formatted from.                                      *)
(***************************************************************************)
ResourceBudget(max_jobs, max_bytes) ==
    [max_jobs_per_build |-> max_jobs,
     max_log_bytes      |-> max_bytes,
     total_log_bytes    |-> 0,
     exhausted          |-> FALSE,
     warnings           |-> << >>]

ExhaustedWarning(used, max) ==
    [text |-> "Log budget exhausted", used |-> used, max |-> max]

\* Mutant: the comparison is >= instead of >.
can_fetch_log_ge(b, estimated_size) ==
    IF b.total_log_bytes + estimated_size >= b.max_log_bytes
    THEN [ret |-> FALSE,
          budget |-> IF ~b.exhausted
                     THEN [b EXCEPT !.warnings = Append(@, ExhaustedWarning(b.total_log_bytes, b.max_log_bytes)),
                                    !.exhausted = TRUE]
                     ELSE b]
    ELSE [ret |-> TRUE, budget |-> b]

\* can_fetch_log: the value returned and the budget after the call.
can_fetch_log(b, estimated_size) ==
    IF b.total_log_bytes + estimated_size > b.max_log_bytes
    THEN [ret |-> FALSE,
          budget |-> IF ~b.exhausted
                     THEN [b EXCEPT !.warnings = Append(@, ExhaustedWarning(b.total_log_bytes, b.max_log_bytes)),
                                    !.exhausted = TRUE]
                     ELSE b]
    ELSE [ret |-> TRUE, budget |-> b]

\* Mutant: the size is assigned instead of added.
record_log_fetch_assign(b, actual_size) ==
    [b EXCEPT !.total_log_bytes = actual_size]

\* Mutant: the size is subtracted instead of added.
record_log_fetch_sub(b, actual_size) ==
    [b EXCEPT !.total_log_bytes = @ - actual_size]

record_log_fetch(b, actual_size) ==
    [b EXCEPT !.total_log_bytes = @ + actual_size]

(***************************************************************************)
(* Assessor (assessment.py).  A timeline entry is a record with the fields *)
(* build_number, created_at, test_found, test_status and jobs; a job       *)
(* outcome carries status and fingerprint_normalized.  Indices are the     *)
(* code's (0-based); a fail rate is kept as the exact fraction num/den     *)
(* that the code's float division rounds, and compared by cross            *)
(* multiplication with 0.2 = 1/5 and 0.8 = 4/5.                            *)
(***************************************************************************)
\* timeline[start_idx:end_idx]
Slice(s, start_idx, end_idx) ==
    SubSeq(s, start_idx + 1, IF end_idx < Len(s) THEN end_idx ELSE Len(s))

RECURSIVE SelectEntries(_, _)
\* The entries of seq s that are in set S, in order (a list comprehension).
SelectEntries(s, S) ==
    IF s = << >> THEN << >>
    ELSE IF Head(s) \in S THEN <<Head(s)>> \o SelectEntries(Tail(s), S)
    ELSE SelectEntries(Tail(s), S)

Range(s) == {s[i] : i \in 1..Len(s)}

FoundOf(window) == SelectEntries(window, {t \in Range(window) : t.test_found})

calculate_fail_rate(tl, start_idx, end_idx) ==
    LET window == Slice(tl, start_idx, end_idx)
        found  == FoundOf(window)
        failed == Cardinality({i \in 1..Len(found) : found[i].test_status = "fail"})
    IN  IF found = << >> THEN [num |-> 0, den |-> 1]
        ELSE [num |-> failed, den |-> Len(found)]

RateBelow02(r) == 5 * r.num < r.den
RateAbove08(r) == 5 * r.num > 4 * r.den

RECURSIVE transition_loop(_, _)
\* for i in range(i, len(timeline)): the first i that qualifies, else -1 (None).
transition_loop(tl, i) ==
    IF i >= Len(tl) THEN -1
    ELSE IF /\ RateBelow02(calculate_fail_rate(tl, 0, i))
            /\ RateAbove08(calculate_fail_rate(tl, i, Len(tl)))
         THEN i
         ELSE transition_loop(tl, i + 1)

\* Mutant: the loop starts at index 2 instead of 1.
find_transition_point_from2(tl) ==
    IF Len(tl) < 3 THEN -1 ELSE transition_loop(tl, 2)

find_transition_point(tl) ==
    IF Len(tl) < 3 THEN -1 ELSE transition_loop(tl, 1)

Truthy(x) == x # None /\ x # ""

RECURSIVE JobFingerprints(_)
JobFingerprints(jobs) ==
    IF jobs = << >> THEN << >>
    ELSE (IF Truthy(Head(jobs).fingerprint_normalized)
          THEN <<Head(jobs).fingerprint_normalized>> ELSE << >>)
         \o JobFingerprints(Tail(jobs))

RECURSIVE FailureFingerprints(_)
\* The fingerprint_normalized of every job of every failing entry, in order.
FailureFingerprints(tl) ==
    IF tl = << >> THEN << >>
    ELSE (IF Head(tl).test_status = "fail" /\ Head(tl).jobs # << >>
          THEN JobFingerprints(Head(tl).jobs) ELSE << >>)
         \o FailureFingerprints(Tail(tl))

CountOf(s, x) == Cardinality({i \in 1..Len(s) : s[i] = x})

\* Counter(s).most_common(1)[0][1]
MostCommonCount(s) ==
    CHOOSE c \in 1..Len(s) :
        /\ \E x \in Range(s) : CountOf(s, x) = c
        /\ \A x \in Range(s) : CountOf(s, x) <= c

consistent_fingerprint_after(tl, start_idx) ==
    LET failures_after == FailureFingerprints(Slice(tl, start_idx, Len(tl)))
    IN  IF failures_after = << >> THEN FALSE
        ELSE 5 * MostCommonCount(failures_after) > 4 * Len(failures_after)

Assessment(classification, confidence, transition_build) ==
    [classification |-> classification, confidence |-> confidence,
     transition_build |-> transition_build]

\* Mutant: the minimum number of found entries is 2 instead of 3.
InsufficientData_lt2(found) == Len(found) < 2

\* if len(found) < 3
InsufficientData(found) == Len(found) < 3

\* Mutant: the flake band is open, 0.2 < fail_rate < 0.8.
InFlakeBand_open(fail_rate) ==
    5 * fail_rate.num > fail_rate.den /\ 5 * fail_rate.num < 4 * fail_rate.den

\* if 0.2 <= fail_rate <= 0.8
InFlakeBand(fail_rate) ==
    5 * fail_rate.num >= fail_rate.den /\ 5 * fail_rate.num <= 4 * fail_rate.den

assess_test_history(tl) ==
    LET found == FoundOf(tl) IN
    IF InsufficientData(found) THEN Assessment("INSUFFICIENT_DATA", "LOW", None)
    ELSE
    LET fail_rate == calculate_fail_rate(found, 0, Len(found))
        transition_idx == find_transition_point(found)
    IN
    IF transition_idx # -1 /\ consistent_fingerprint_after(found, transition_idx)
    THEN Assessment("REGRESSION", "HIGH", found[transition_idx + 1].build_number)
    ELSE IF InFlakeBand(fail_rate)
    THEN IF Cardinality(Range(FailureFingerprints(found))) > 1
         THEN Assessment("FLAKE_ONSET", "MED", None)
         ELSE Assessment("SPORADIC", "MED", None)
    ELSE IF RateAbove08(fail_rate)
    THEN Assessment("PERSISTENT_FAIL", "HIGH", None)
    ELSE Assessment("SPORADIC", "HIGH", None)

\* generate_summary: the values the text is formatted from.
generate_summary(tl, assessment) ==
    LET found == FoundOf(tl) IN
    [classification   |-> assessment.classification,
     confidence       |-> assessment.confidence,
     transition_build |-> assessment.transition_build,
     builds_scanned   |-> Len(found),
     passed |-> Cardinality({i \in 1..Len(found) : found[i].test_status = "pass"}),
     failed |-> Cardinality({i \in 1..Len(found) : found[i].test_status = "fail"})]

(***************************************************************************)
(* Text.  A Python str is a TLA+ string; the operators below are the       *)
(* str methods and regular-expression searches the code uses.              *)
(***************************************************************************)
UpperCase == "ABCDEFGHIJKLMNOPQRSTUVWXYZ"
LowerCase == "abcdefghijklmnopqrstuvwxyz"

CharAt(s, i) == SubSeq(s, i, i)

\* The lower-case letter of each upper-case letter.
ToLower ==
    [c \in {CharAt(UpperCase, i) : i \in 1..Len(UpperCase)} |->
        CharAt(LowerCase, CHOOSE i \in 1..Len(UpperCase) : CharAt(UpperCase, i) = c)]

LowerChar(c) == IF c \in DOMAIN ToLower THEN ToLower[c] ELSE c

RECURSIVE Lower(_)
\* str.lower()
Lower(s) == IF Len(s) = 0 THEN "" ELSE LowerChar(CharAt(s, 1)) \o Lower(SubSeq(s, 2, Len(s)))

\* sub in s
Contains(s, sub) ==
    \E i \in 1..(Len(s) - Len(sub) + 1) : SubSeq(s, i, i + Len(sub) - 1) = sub

(***************************************************************************)
(* Fingerprint normalization (fingerprint.py).  Each pattern is given by   *)
(* the length of its match starting at a position (0 when it does not      *)
(* match there); a substitution replaces the leftmost non-overlapping      *)
(* matches, scanning left to right as re.sub does.                         *)
(***************************************************************************)
Char(s, i) == IF i >= 1 /\ i <= Len(s) THEN SubSeq(s, i, i) ELSE ""

DigitChars == {"0", "1", "2", "3", "4", "5", "6", "7", "8", "9"}
LowerHexChars == DigitChars \cup {"a", "b", "c", "d", "e", "f"}
HexChars == LowerHexChars \cup {"A", "B", "C", "D", "E", "F"}
WordChars ==
    DigitChars \cup {"_"}
    \cup {SubSeq(LowerCase, k, k) : k \in 1..Len(LowerCase)}
    \cup {SubSeq(UpperCase, k, k) : k \in 1..Len(UpperCase)}

IsDigit(c) == c \in DigitChars
IsLowerHex(c) == c \in LowerHexChars
IsHex(c) == c \in HexChars
IsWordChar(c) == c \in WordChars

\* \b between positions i-1 and i
WordBoundary(s, i) == IsWordChar(Char(s, i - 1)) # IsWordChar(Char(s, i))

Digits(s, i, n) == \A k \in i..(i + n - 1) : IsDigit(Char(s, k))
LowerHexes(s, i, n) == \A k \in i..(i + n - 1) : IsLowerHex(Char(s, k))

RECURSIVE DigitRun(_, _)
\* Length of the longest run of digits starting at i (\d+ is greedy).
DigitRun(s, i) == IF IsDigit(Char(s, i)) THEN 1 + DigitRun(s, i + 1) ELSE 0

RECURSIVE HexRun(_, _)
\* Length of the longest run of hex digits starting at i.
HexRun(s, i) == IF IsHex(Char(s, i)) THEN 1 + HexRun(s, i + 1) ELSE 0

\* [0-9a-f]{8}-[0-9a-f]{4}-[0-9a-f]{4}-[0-9a-f]{4}-[0-9a-f]{12}
UuidAt(s, i) ==
    IF /\ LowerHexes(s, i, 8)      /\ Char(s, i + 8) = "-"
       /\ LowerHexes(s, i + 9, 4)  /\ Char(s, i + 13) = "-"
       /\ LowerHexes(s, i + 14, 4) /\ Char(s, i + 18) = "-"
       /\ LowerHexes(s, i + 19, 4) /\ Char(s, i + 23) = "-"
       /\ LowerHexes(s, i + 24, 12)
    THEN 36 ELSE 0

\* \d{4}-\d{2}-\d{2}[T ]\d{2}:\d{2}:\d{2}
TimestampAt(s, i) ==
    IF /\ Digits(s, i, 4)      /\ Char(s, i + 4) = "-"
       /\ Digits(s, i + 5, 2)  /\ Char(s, i + 7) = "-"
       /\ Digits(s, i + 8, 2)  /\ Char(s, i + 10) \in {"T", " "}
       /\ Digits(s, i + 11, 2) /\ Char(s, i + 13) = ":"
       /\ Digits(s, i + 14, 2) /\ Char(s, i + 16) = ":"
       /\ Digits(s, i + 17, 2)
    THEN 19 ELSE 0

\* 0x[0-9a-fA-F]+
AddrAt(s, i) ==
    IF Char(s, i) = "0" /\ Char(s, i + 1) = "x" /\ HexRun(s, i + 2) > 0
    THEN 2 + HexRun(s, i + 2) ELSE 0

\* \b\d+\.\d+\b
FloatAt(s, i) ==
    LET a == DigitRun(s, i)
        b == DigitRun(s, i + a + 1)
    IN  IF /\ a > 0 /\ WordBoundary(s, i)
           /\ Char(s, i + a) = "."
           /\ b > 0 /\ WordBoundary(s, i + a + 1 + b)
        THEN a + 1 + b ELSE 0

\* \b\d+\b
IntAt(s, i) ==
    LET a == DigitRun(s, i)
    IN  IF a > 0 /\ WordBoundary(s, i) /\ WordBoundary(s, i + a) THEN a ELSE 0

\* Mutant: the placeholder of an integer holds an integer.
numbered_placeholders == <<"<UUID>", "<TIMESTAMP>", "<ADDR>", "<NUM>", "<NUM 1>">>

NORMALIZATION_PATTERNS == <<"<UUID>", "<TIMESTAMP>", "<ADDR>", "<NUM>", "<NUM>">>

MatchAt(k, s, i) ==
    CASE k = 1 -> UuidAt(s, i)
      [] k = 2 -> TimestampAt(s, i)
      [] k = 3 -> AddrAt(s, i)
      [] k = 4 -> FloatAt(s, i)
      [] k = 5 -> IntAt(s, i)

RECURSIVE SubFrom(_, _, _)
\* pattern.sub(replacement, s), from position i on
SubFrom(k, s, i) ==
    IF i > Len(s) THEN ""
    ELSE LET n == MatchAt(k, s, i) IN
         IF n > 0 THEN NORMALIZATION_PATTERNS[k] \o SubFrom(k, s, i + n)
         ELSE Char(s, i) \o SubFrom(k, s, i + 1)

RECURSIVE ApplyPatterns(_, _)
ApplyPatterns(k, s) ==
    IF k > Len(NORMALIZATION_PATTERNS) THEN s
    ELSE ApplyPatterns(k + 1, SubFrom(k, s, 1))

normalize_failure_fingerprint(error_message) == ApplyPatterns(1, error_message)

(***************************************************************************)
(* History engine (test_history.py).  The Buildkite API is the             *)
(* environment: list_builds, get_build and get_job_log each answer with    *)
(* BuildkiteAPIError or with one of a bounded set of payloads.  A job log  *)
(* is represented by its length and by what find_test_outcome_in_log and   *)
(* extract_fingerprint_from_log find in it for the test.                   *)
(***************************************************************************)
\* A raised BuildkiteAPIError, in place of the payload.
APIError == [error |-> "BuildkiteAPIError"]

\* raw.get(key, default)
Get(raw, key, default) == IF key \in DOMAIN raw THEN raw[key] ELSE default

parse_build_json(raw) ==
    [build_number |-> Get(raw, "number", Get(raw, "id", "unknown")),
     created_at   |-> raw.created_at,
     state        |-> Get(raw, "state", "unknown")]

RECURSIVE InsertByCreatedAt(_, _)
InsertByCreatedAt(sorted, b) ==
    IF sorted = << >> THEN <<b>>
    ELSE IF Head(sorted).created_at <= b.created_at
         THEN <<Head(sorted)>> \o InsertByCreatedAt(Tail(sorted), b)
         ELSE <<b>> \o sorted

RECURSIVE SortedByCreatedAt(_)
\* list.sort(key=created_at): stable, ascending.
SortedByCreatedAt(builds) ==
    IF builds = << >> THEN << >>
    ELSE InsertByCreatedAt(SortedByCreatedAt(SubSeq(builds, 1, Len(builds) - 1)),
                           builds[Len(builds)])

\* Mutant: the builds are left in the order the API lists them.
ParseAndSort_unsorted(builds_raw) ==
    [i \in 1..Len(builds_raw) |-> parse_build_json(builds_raw[i])]

ParseAndSort(builds_raw) ==
    SortedByCreatedAt([i \in 1..Len(builds_raw) |-> parse_build_json(builds_raw[i])])

TestOutcome == [test_found |-> FALSE, status |-> "unknown", jobs |-> << >>]

find_test_outcome_in_log(log_text) ==
    [found |-> log_text.found, status |-> log_text.status,
     error_message |-> log_text.error_message]

extract_fingerprint_from_log(log_text) == log_text.fingerprint_raw

\* find_test_in_job: <<the dict>> or << >> for None, the budget after the
\* call, and whether get_job_log was called.  response is the API's answer.
find_test_in_job(build_number, job_info, b, response) ==
    LET can == can_fetch_log(b, ESTIMATED_LOG_SIZE_PER_JOB) IN
    IF ~can.ret
    THEN [result |-> << >>, budget |-> can.budget, fetched |-> FALSE]
    ELSE IF response = APIError
    THEN [result |-> << >>, budget |-> can.budget, fetched |-> TRUE]
    ELSE
    LET after == record_log_fetch(can.budget, response.size)
        out == find_test_outcome_in_log(response)
        fingerprint_raw ==
            IF out.status = "fail" THEN extract_fingerprint_from_log(response) ELSE None
        fingerprint_normalized ==
            IF out.status # "fail" THEN None
            ELSE IF Truthy(fingerprint_raw) THEN fingerprint_raw
            ELSE IF Truthy(out.error_message)
                 THEN normalize_failure_fingerprint(out.error_message)
                 ELSE None
    IN  IF ~out.found
        THEN [result |-> << >>, budget |-> after, fetched |-> TRUE]
        ELSE [result |-> << [job_name |-> job_info.name,
                             job_url  |-> <<build_number, job_info.id>>,
                             status   |-> out.status,
                             fingerprint_raw |-> fingerprint_raw,
                             fingerprint_normalized |-> fingerprint_normalized,
                             error_message |-> IF Truthy(out.error_message)
                                               THEN out.error_message ELSE None] >>,
              budget |-> after, fetched |-> TRUE]

\* if job_filter: all_jobs = [j for j in all_jobs if job_filter.lower() in name.lower()]
FilterJobs(all_jobs, job_filter) ==
    IF Truthy(job_filter)
    THEN SelectEntries(all_jobs,
             {j \in Range(all_jobs) : Contains(Lower(j.name), Lower(job_filter))})
    ELSE all_jobs

Prefix(s, n) == SubSeq(s, 1, IF n < Len(s) THEN n ELSE Len(s))

FailedJobsOf(all_jobs, b) ==
    Prefix(SelectEntries(all_jobs, {j \in Range(all_jobs) : j.state = "failed"}),
           b.max_jobs_per_build)

\* Mutant: the passed partition is cut to max_jobs_per_build as well.
PassedJobsOf_own_cap(all_jobs, b) ==
    Prefix(SelectEntries(all_jobs, {j \in Range(all_jobs) : j.state = "passed"}),
           b.max_jobs_per_build)

PassedJobsOf(all_jobs, b) ==
    Prefix(SelectEntries(all_jobs, {j \in Range(all_jobs) : j.state = "passed"}),
           b.max_jobs_per_build - Len(FailedJobsOf(all_jobs, b)))

\* Mutant: the status of the last job found wins.
UpdateOutcome_last_wins(o, res) ==
    IF res = << >> THEN o
    ELSE [test_found |-> TRUE,
          jobs   |-> Append(o.jobs, res[1]),
          status |-> res[1].status]

\* if result: outcome.test_found = True; ... (fail takes precedence)
UpdateOutcome(o, res) ==
    IF res = << >> THEN o
    ELSE [test_found |-> TRUE,
          jobs   |-> Append(o.jobs, res[1]),
          status |-> IF res[1].status = "fail" THEN "fail"
                     ELSE IF o.status = "unknown" THEN res[1].status
                     ELSE o.status]

\* Mutant: the passed jobs are searched whether or not the test was found.
SearchPassedJobs_always(o, b) == ~b.exhausted

\* if not outcome.test_found and not budget.exhausted
SearchPassedJobs(o, b) == ~o.test_found /\ ~b.exhausted

TimelineEntry(build_info, o) ==
    [build_number |-> build_info.build_number,
     created_at   |-> build_info.created_at,
     test_found   |-> o.test_found,
     test_status  |-> o.status,
     jobs         |-> o.jobs]

StoppedWarning(n) == [text |-> "Stopped scanning (budget exhausted)", builds |-> n]

\* Mutant: the budget warnings are left out of the result.
HistoryResult_no_warnings(tl, b) ==
    LET assessment == assess_test_history(tl) IN
    [timeline |-> tl, assessment |-> assessment,
     summary |-> generate_summary(tl, assessment)]

\* The dict get_test_history returns after the scan.
HistoryResult(tl, b) ==
    LET assessment == assess_test_history(tl)
        base == [timeline |-> tl, assessment |-> assessment,
                 summary |-> generate_summary(tl, assessment)]
    IN  IF b.warnings # << >> THEN base @@ [warnings |-> b.warnings] ELSE base

NoBuildsResult ==
    [error |-> "No builds found on branch",
     timeline |-> << >>,
     assessment |-> [classification |-> "INSUFFICIENT_DATA", confidence |-> "LOW"],
     summary |-> "No builds found for test"]

(***************************************************************************)
(* Classifier (classify.py).  A confidence is kept in hundredths.  The     *)
(* patterns are alternations of literals compiled with re.I: a pattern is  *)
(* the sequence of its alternatives, in lower case, and is searched in the *)
(* lower-cased text.  A GitHub issue is a record with title, url and the   *)
(* sequence of its label names; a search answers with [issues |-> ...] or  *)
(* raises CLIError.                                                        *)
(***************************************************************************)
CI_FAILURE_LABEL == "ci-failure"
MIN_MATCH_CONFIDENCE == 60
EXACT_MATCH_CONFIDENCE == 90
FUZZY_MATCH_CONFIDENCE == 70
WEAK_MATCH_CONFIDENCE == 50

CLIError == [error |-> "CLIError"]

INFRA_PATTERNS ==
    << [alternatives |-> <<"timeout", "timed out">>,
        description |-> "timeout detected"],
       [alternatives |-> <<"connection refused", "network error">>,
        description |-> "network issue"],
       [alternatives |-> <<"no space left on device", "disk full">>,
        description |-> "disk space"],
       [alternatives |-> <<"out of memory", "oom", "cuda out of memory">>,
        description |-> "OOM"],
       [alternatives |-> <<"killed by signal", "sigkill">>,
        description |-> "process killed"],
       [alternatives |-> <<"cannot allocate memory">>,
        description |-> "memory allocation"],
       [alternatives |-> <<"failed to download", "download error">>,
        description |-> "download failure"],
       [alternatives |-> <<"agent lost", "lost connection to agent">>,
        description |-> "agent connection lost"] >>

FLAKY_PATTERNS ==
    << [alternatives |-> <<"flaky">>, description |-> "test name contains 'flaky'"],
       [alternatives |-> <<"intermittent">>, description |-> "intermittent failure"],
       [alternatives |-> <<"passed on retry">>, description |-> "passed on retry"] >>

\* pattern.search(text) is not None
Search(pattern, text) ==
    LET lowered == Lower(text)
    IN  \E k \in DOMAIN pattern.alternatives : Contains(lowered, pattern.alternatives[k])

RECURSIVE Join(_, _)
\* sep.join(parts)
Join(parts, sep) ==
    IF parts = << >> THEN ""
    ELSE IF Len(parts) = 1 THEN parts[1]
    ELSE parts[1] \o sep \o Join(Tail(parts), sep)

\* "\n".join(filter(None, [error_message, stack_trace, log_snippet]))
CombinedLog(failure) ==
    Join(SelectSeq(<<failure.error_message, failure.stack_trace,
                     failure.log_snippet>>, Truthy), "\n")

RECURSIVE Replace(_, _, _)
\* s.replace(old, new) for a one-character old
Replace(s, old, new) ==
    IF Len(s) = 0 THEN ""
    ELSE (IF CharAt(s, 1) = old THEN new ELSE CharAt(s, 1))
         \o Replace(SubSeq(s, 2, Len(s)), old, new)

RECURSIVE Split(_, _)
\* s.split(sep)
Split(s, sep) ==
    IF ~Contains(s, sep) THEN <<s>>
    ELSE LET i == CHOOSE k \in 1..(Len(s) - Len(sep) + 1) :
                    /\ SubSeq(s, k, k + Len(sep) - 1) = sep
                    /\ \A m \in 1..(k - 1) : SubSeq(s, m, m + Len(sep) - 1) # sep
         IN  <<SubSeq(s, 1, i - 1)>> \o Split(SubSeq(s, i + Len(sep), Len(s)), sep)

\* generate_failure_key: the string the SHA-256 digest is taken of stands
\* for the 16 hex digits kept of the digest.
generate_failure_key(failure) ==
    LET components ==
            <<Replace(Lower(failure.job_name), " ", "_"), failure.test_name>>
            \o (IF Truthy(failure.error_message)
                THEN <<Prefix(Split(failure.error_message, "\n")[1], 100)>>
                ELSE << >>)
    IN  Join(components, "::")

validate_issue_match(issue, failure) ==
    LET title == Lower(issue.title)
        test_name == Lower(failure.test_name)
        job_name == Lower(failure.job_name)
        labels == {Lower(issue.labels[k]) : k \in DOMAIN issue.labels}
        test_parts == Split(test_name, "::")
    IN  IF CI_FAILURE_LABEL \notin labels
        THEN [is_valid |-> FALSE, confidence |-> 0]
        ELSE IF Contains(title, test_name)
        THEN [is_valid |-> TRUE, confidence |-> EXACT_MATCH_CONFIDENCE]
        ELSE IF \E k \in DOMAIN test_parts :
                    Len(test_parts[k]) > 3 /\ Contains(title, test_parts[k])
        THEN [is_valid |-> TRUE, confidence |-> EXACT_MATCH_CONFIDENCE]
        ELSE IF Contains(title, job_name)
        THEN [is_valid |-> TRUE, confidence |-> FUZZY_MATCH_CONFIDENCE]
        ELSE [is_valid |-> TRUE, confidence |-> WEAK_MATCH_CONFIDENCE]

\* Mutant: a label-only match is accepted as well.
Accepted_weak(issue, failure) ==
    LET v == validate_issue_match(issue, failure)
    IN  v.is_valid /\ v.confidence >= WEAK_MATCH_CONFIDENCE

\* is_valid and confidence >= MIN_MATCH_CONFIDENCE
Accepted(issue, failure) ==
    LET v == validate_issue_match(issue, failure)
    IN  v.is_valid /\ v.confidence >= MIN_MATCH_CONFIDENCE

\* find_best_issue_match: <<the tuple>> or << >> for None.  exact and broad
\* are the answers of the two searches.
find_best_issue_match(failure, exact, broad) ==
    LET exact_issues == IF exact = CLIError THEN << >> ELSE exact.issues
        broad_issues == IF broad = CLIError THEN << >> ELSE broad.issues
        matches == SelectSeq(broad_issues, LAMBDA issue : Accepted(issue, failure))
        conf(issue) == validate_issue_match(issue, failure).confidence
    IN  IF \E k \in DOMAIN exact_issues : Accepted(exact_issues[k], failure)
        THEN LET k == CHOOSE k \in DOMAIN exact_issues :
                        /\ Accepted(exact_issues[k], failure)
                        /\ \A m \in 1..(k - 1) : ~Accepted(exact_issues[m], failure)
             IN  << [url |-> exact_issues[k].url,
                     confidence |-> conf(exact_issues[k]),
                     reason |-> <<"Exact match in issue", exact_issues[k].title>>] >>
        ELSE IF matches # << >>
        THEN \* max(matches, key=confidence): the first of the highest
             LET k == CHOOSE k \in DOMAIN matches :
                        /\ \A m \in DOMAIN matches : conf(matches[m]) <= conf(matches[k])
                        /\ \A m \in 1..(k - 1) : conf(matches[m]) < conf(matches[k])
             IN  << [url |-> matches[k].url,
                     confidence |-> conf(matches[k]),
                     reason |-> <<"Matched issue", matches[k].title>>] >>
        ELSE << >>

FailureClassification(failure, category, github_issue, confidence, reason) ==
    [failure_key  |-> generate_failure_key(failure),
     test_failure |-> failure,
     category     |-> category,
     github_issue |-> github_issue,
     confidence   |-> confidence,
     reason       |-> reason]

RECURSIVE infra_loop(_, _)
\* for pattern, description in INFRA_PATTERNS: the description of the first
\* pattern found in combined_log, or None.
infra_loop(k, combined_log) ==
    IF k > Len(INFRA_PATTERNS) THEN None
    ELSE IF Search(INFRA_PATTERNS[k], combined_log)
         THEN INFRA_PATTERNS[k].description
         ELSE infra_loop(k + 1, combined_log)

RECURSIVE flaky_loop(_, _, _)
\* for pattern, description in FLAKY_PATTERNS: the description of the first
\* pattern found in the test name or in combined_log, or None.
flaky_loop(k, test_name, combined_log) ==
    IF k > Len(FLAKY_PATTERNS) THEN None
    ELSE IF Search(FLAKY_PATTERNS[k], test_name) \/ Search(FLAKY_PATTERNS[k], combined_log)
         THEN FLAKY_PATTERNS[k].description
         ELSE flaky_loop(k + 1, test_name, combined_log)

\* Mutant: the flaky indicators are checked before the infra patterns.
classify_failure_flaky_first(failure, search_github, exact, broad) ==
    LET match_result == IF search_github
                        THEN find_best_issue_match(failure, exact, broad) ELSE << >>
        combined_log == CombinedLog(failure)
        infra == infra_loop(1, combined_log)
        flaky == flaky_loop(1, failure.test_name, combined_log)
    IN  IF match_result # << >>
        THEN FailureClassification(failure, "KNOWN_TRACKED", match_result[1].url,
                                   match_result[1].confidence, match_result[1].reason)
        ELSE IF flaky # None
        THEN FailureClassification(failure, "FLAKY_SUSPECTED", None, 60,
                                   <<"Flaky test indicator", flaky>>)
        ELSE IF infra # None
        THEN FailureClassification(failure, "INFRA_SUSPECTED", None, 70,
                                   <<"Infrastructure issue detected", infra>>)
        ELSE IF Truthy(failure.error_message)
        THEN FailureClassification(failure, "NEW_REGRESSION", None, 50,
                                   <<"New failure with no known pattern">>)
        ELSE FailureClassification(failure, "NEEDS_HUMAN_TRIAGE", None, 30,
                                   <<"Insufficient data for automatic classification">>)

classify_failure(failure, search_github, exact, broad) ==
    LET match_result == IF search_github
                        THEN find_best_issue_match(failure, exact, broad) ELSE << >>
        combined_log == CombinedLog(failure)
        infra == infra_loop(1, combined_log)
        flaky == flaky_loop(1, failure.test_name, combined_log)
    IN  IF match_result # << >>
        THEN FailureClassification(failure, "KNOWN_TRACKED", match_result[1].url,
                                   match_result[1].confidence, match_result[1].reason)
        ELSE IF infra # None
        THEN FailureClassification(failure, "INFRA_SUSPECTED", None, 70,
                                   <<"Infrastructure issue detected", infra>>)
        ELSE IF flaky # None
        THEN FailureClassification(failure, "FLAKY_SUSPECTED", None, 60,
                                   <<"Flaky test indicator", flaky>>)
        ELSE IF Truthy(failure.error_message)
        THEN FailureClassification(failure, "NEW_REGRESSION", None, 50,
                                   <<"New failure with no known pattern">>)
        ELSE FailureClassification(failure, "NEEDS_HUMAN_TRIAGE", None, 30,
                                   <<"Insufficient data for automatic classification">>)

RECURSIVE dedup_loop(_, _, _, _)
\* for failure in failures: keep it if its key was not seen yet.
dedup_loop(failures, k, seen_keys, unique_failures) ==
    IF k > Len(failures) THEN unique_failures
    ELSE IF failures[k].failure_key \notin seen_keys
         THEN dedup_loop(failures, k + 1, seen_keys \cup {failures[k].failure_key},
                         Append(unique_failures, failures[k]))
         ELSE dedup_loop(failures, k + 1, seen_keys, unique_failures)

\* Mutant: a later entry replaces the kept entry of its key.
deduplicate_failures_last(failures) ==
    SelectEntries(failures,
        {failures[i] : i \in {i \in DOMAIN failures :
            \A j \in DOMAIN failures : j > i => failures[j].failure_key # failures[i].failure_key}})

deduplicate_failures(failures) == dedup_loop(failures, 1, {}, << >>)

(***************************************************************************)
(* Pytest log parsing (normalize.py).  The regular expressions are given   *)
(* character by character: a greedy class repetition is the longest run    *)
(* of the class, and where the expression that follows can only match      *)
(* after a shorter repetition the longest such repetition is taken, as     *)
(* the backtracking of re does.                                            *)
(***************************************************************************)
MAX_LOG_SNIPPET_LENGTH == 500
MAX_STACK_TRACE_LENGTH == 1000
MAX_ERROR_MESSAGE_LENGTH == 200
MAX_FAILED_JOBS_TO_PROCESS == 10

ESC == ""
BEL == ""

\* \s
WhiteSpace == {" ", "\n", "\t", "\r", "\f"}
\* [\s\x1b\[0-9;m]
SepChars == WhiteSpace \cup DigitChars \cup {ESC, "[", ";", "m"}
\* [\w/.-]
NodeChars == WordChars \cup {"/", ".", "-"}

RECURSIVE RunOf(_, _, _)
\* Length of the longest run of characters of class S starting at i.
RunOf(S, s, i) == IF Char(s, i) \in S THEN 1 + RunOf(S, s, i + 1) ELSE 0

RECURSIVE NonSpaceRun(_, _)
\* Length of the longest match of \S* at i.
NonSpaceRun(s, i) ==
    IF i <= Len(s) /\ Char(s, i) \notin WhiteSpace THEN 1 + NonSpaceRun(s, i + 1) ELSE 0

\* The literal w stands at position i of s.
StartsWith(s, i, w) ==
    i >= 1 /\ i + Len(w) - 1 <= Len(s) /\ SubSeq(s, i, i + Len(w) - 1) = w

Largest(S) == CHOOSE x \in S : \A y \in S : y <= x

Least(S) == CHOOSE x \in S : \A y \in S : x <= y

\* Mutant: s[:n]
first_chars(s, n) == SubSeq(s, 1, IF Len(s) <= n THEN Len(s) ELSE n)

\* s[-n:]
Suffix(s, n) == IF Len(s) <= n THEN s ELSE SubSeq(s, Len(s) - n + 1, Len(s))

\* Length of the match of [\w/.-]+:: at j when [\w/.-]+::\S+ matches there,
\* else 0.  ":" is not in the class, so the run cannot be given back.
NodeHead(s, j) ==
    LET r == RunOf(NodeChars, s, j)
    IN  IF r > 0 /\ StartsWith(s, j + r, "::") /\ NonSpaceRun(s, j + r + 2) > 0
        THEN r + 2 ELSE 0

\* WORD[\s\x1b\[0-9;m]+([\w/.-]+::\S+) at i: the separator gives back
\* characters until a nodeid starts after it.
WordFirstAt(word, s, i) ==
    LET p == i + Len(word)
        K == {k \in 1..RunOf(SepChars, s, p) : NodeHead(s, p + k) > 0}
    IN  IF StartsWith(s, i, word) /\ K # {}
        THEN LET j == p + Largest(K)
                 e == j + NodeHead(s, j) + NonSpaceRun(s, j + NodeHead(s, j))
             IN  <<[group |-> SubSeq(s, j, e - 1), end |-> e]>>
        ELSE << >>

\* ([\w/.-]+::\S+)[\s\x1b\[0-9;m]+WORD at i: \S+ gives back characters
\* until a separator and the word follow it.
NameFirstAt(word, s, i) ==
    LET h == NodeHead(s, i)
        Q == {q \in 1..NonSpaceRun(s, i + h) :
                LET k == RunOf(SepChars, s, i + h + q)
                IN  k > 0 /\ StartsWith(s, i + h + q + k, word)}
    IN  IF h > 0 /\ Q # {}
        THEN LET e == i + h + Largest(Q)
             IN  <<[group |-> SubSeq(s, i, e - 1),
                    end |-> e + RunOf(SepChars, s, e) + Len(word)]>>
        ELSE << >>

PYTEST_FAILED_PATTERN == "FAILED"
PYTEST_ERROR_PATTERN == "ERROR"

\* The match of the pattern at i: the first alternative before the second.
PytestMatchAt(word, s, i) ==
    IF WordFirstAt(word, s, i) # << >> THEN WordFirstAt(word, s, i)
    ELSE NameFirstAt(word, s, i)

\* The leftmost match of the pattern in s from position i on, << >> when
\* there is none.
LeftmostMatch(word, s, i) ==
    LET I == {k \in i..Len(s) : PytestMatchAt(word, s, k) # << >>}
    IN  IF I = {} THEN << >> ELSE PytestMatchAt(word, s, Least(I))

RECURSIVE FindAll(_, _, _)
RECURSIVE MatchAndRest(_, _, _)
\* The name of the match m, then the matches from the end of m on.
MatchAndRest(word, s, m) ==
    IF m = << >> THEN << >>
    ELSE <<m[1].group>> \o FindAll(word, s, m[1].end)

\* [g1 or g2 for g1, g2 in pattern.findall(s)], from position i on: the
\* leftmost match, then on from the end of that match.
FindAll(word, s, i) == MatchAndRest(word, s, LeftmostMatch(word, s, i))

\* ANSI_ESCAPE_PATTERN \x1b\[[0-9;]*m|\[[0-9;]*m and BK_TIMESTAMP_PATTERN
\* _bk;t=[0-9]+\x07: length of the match at i, else 0.
StripAt(pattern, s, i) ==
    LET b == IF Char(s, i) = ESC THEN i + 1 ELSE i
        n == RunOf(DigitChars \cup {";"}, s, b + 1)
        d == RunOf(DigitChars, s, i + 6)
    IN  CASE pattern = "ANSI_ESCAPE_PATTERN" ->
                 IF Char(s, b) = "[" /\ Char(s, b + 1 + n) = "m"
                 THEN b + n + 2 - i ELSE 0
          [] pattern = "BK_TIMESTAMP_PATTERN" ->
                 IF StartsWith(s, i, "_bk;t=") /\ d > 0 /\ Char(s, i + 6 + d) = BEL
                 THEN 6 + d + 1 ELSE 0

RECURSIVE Strip(_, _, _)
\* pattern.sub('', s), from position i on
Strip(pattern, s, i) ==
    IF i > Len(s) THEN ""
    ELSE IF StripAt(pattern, s, i) > 0 THEN Strip(pattern, s, i + StripAt(pattern, s, i))
    ELSE Char(s, i) \o Strip(pattern, s, i + 1)

strip_ansi_codes(text) ==
    Strip("BK_TIMESTAMP_PATTERN", Strip("ANSI_ESCAPE_PATTERN", text, 1), 1)

RECURSIVE StripEach(_)
StripEach(names) ==
    IF names = << >> THEN << >>
    ELSE <<strip_ansi_codes(Head(names))>> \o StripEach(Tail(names))

\* Mutant: every name is kept, repeated or not.
keep_all(tests, seen) == seen \o tests

RECURSIVE UniqueInOrder(_, _)
\* Remove duplicates while preserving order; seen is the prefix kept so far.
UniqueInOrder(tests, seen) ==
    IF tests = << >> THEN seen
    ELSE IF \E k \in DOMAIN seen : seen[k] = Head(tests)
         THEN UniqueInOrder(Tail(tests), seen)
         ELSE UniqueInOrder(Tail(tests), Append(seen, Head(tests)))

\* The names the short-test-summary fallback finds:
\* ={3,}\s*short test summary info\s*={3,}(.*?)(?:={3,}|$) with MULTILINE
\* and DOTALL captures up to the first "===" or end of line, and
\* ^(?:FAILED|ERROR)\s+([\w/.-]+::\S+) is then tried on the captured text,
\* which holds no line break, so only at its start.
stss_failed(log_text) ==
    LET title == "short test summary info"
        HeaderEnd(i) ==
            LET a == i + RunOf({"="}, log_text, i)
                b == a + RunOf(WhiteSpace, log_text, a)
                c == b + Len(title) + RunOf(WhiteSpace, log_text, b + Len(title))
            IN  IF /\ a - i >= 3 /\ StartsWith(log_text, b, title)
                   /\ RunOf({"="}, log_text, c) >= 3
                THEN c + RunOf({"="}, log_text, c) ELSE 0
        I == {i \in 1..Len(log_text) : HeaderEnd(i) > 0}
    IN  IF I = {} THEN << >>
        ELSE LET start == HeaderEnd(CHOOSE i \in I : \A j \in I : i <= j)
                 stop == CHOOSE p \in start..(Len(log_text) + 1) :
                             /\ \/ p = Len(log_text) + 1
                                \/ Char(log_text, p) = "\n"
                                \/ RunOf({"="}, log_text, p) >= 3
                             /\ \A q \in start..(p - 1) :
                                    /\ Char(log_text, q) # "\n"
                                    /\ RunOf({"="}, log_text, q) < 3
                 stss_section == SubSeq(log_text, start, stop - 1)
                 word == IF StartsWith(stss_section, 1, "FAILED") THEN "FAILED" ELSE "ERROR"
                 w == RunOf(WhiteSpace, stss_section, Len(word) + 1)
                 j == Len(word) + 1 + w
                 h == NodeHead(stss_section, j)
             IN  IF StartsWith(stss_section, 1, word) /\ w > 0 /\ h > 0
                 THEN <<SubSeq(stss_section, j,
                               j + h + NonSpaceRun(stss_section, j + h) - 1)>>
                 ELSE << >>

\* if not unique_failed_tests: the names of the short-summary fallback.
WithSummaryFallback(unique, log_text) ==
    IF unique = << >> THEN stss_failed(log_text) ELSE unique

\* The FAILED names, then the ERROR names, without duplicates; the
\* fallback when there are none.
unique_failed_tests(log_text) ==
    WithSummaryFallback(
        UniqueInOrder(StripEach(FindAll(PYTEST_FAILED_PATTERN, log_text, 1))
                      \o StripEach(FindAll(PYTEST_ERROR_PATTERN, log_text, 1)),
                      << >>),
        log_text)

TestFailure(test_name, job_name, error_message, stack_trace, log_snippet) ==
    [test_name |-> test_name, job_name |-> job_name, error_message |-> error_message,
     stack_trace |-> stack_trace, log_snippet |-> log_snippet]

\* The prefix each of ERROR_SIG_PATTERNS asks for before "Error: ":
\* (\w+Error): (.+?)(?:\n|$) asks for one word character or more.
ERROR_SIG_PATTERNS == <<"", "Assertion", "Runtime", "Timeout">>

\* pattern.search(section_text).group(0).strip(), None without a match.
ErrorSignature(k, section_text) ==
    LET prefix == ERROR_SIG_PATTERNS[k]
        MessageAt(i) ==
            LET r == IF prefix = "" THEN RunOf(WordChars, section_text, i) - 5
                     ELSE Len(prefix)
            IN  IF /\ r > 0
                   /\ prefix # "" => StartsWith(section_text, i, prefix)
                   /\ StartsWith(section_text, i + r, "Error: ")
                   /\ Char(section_text, i + r + 7) \notin {"", "\n"}
                THEN i + r + 7 ELSE 0
        I == {i \in 1..Len(section_text) : MessageAt(i) > 0}
    IN  IF I = {} THEN None
        ELSE LET i == CHOOSE x \in I : \A y \in I : x <= y
                 e == CHOOSE p \in MessageAt(i)..Len(section_text) :
                          /\ p = Len(section_text) \/ Char(section_text, p + 1) = "\n"
                          /\ \A q \in MessageAt(i)..(p - 1) :
                                 Char(section_text, q + 1) # "\n"
                 last == CHOOSE p \in i..e :
                             /\ Char(section_text, p) \notin WhiteSpace
                             /\ \A q \in (p + 1)..e : Char(section_text, q) \in WhiteSpace
             IN  SubSeq(section_text, i, last)

\* re.search of the section expression for test_name succeeds.  The
\* expression is an f-string, so each {10,} in it is the tuple (10,) and
\* the expression built is _(10,)\s+NAME\s+_(10,)(.*?)(?=_(10,)|\Z), whose
\* first group is the text "10,".
HasTestSection(log_text, test_name) ==
    \E i \in 1..Len(log_text) :
        LET a == i + 4 + RunOf(WhiteSpace, log_text, i + 4)
            b == a + Len(test_name)
            c == b + RunOf(WhiteSpace, log_text, b)
        IN  /\ StartsWith(log_text, i, "_10,") /\ a > i + 4
            /\ StartsWith(log_text, a, test_name) /\ c > b
            /\ StartsWith(log_text, c, "_10,")

\* The body of the loop over unique_failed_tests.
TestDetails(log_text, job_name, test_name) ==
    IF HasTestSection(log_text, test_name)
    THEN LET section_text == "10,"
             K == {k \in DOMAIN ERROR_SIG_PATTERNS :
                     ErrorSignature(k, section_text) # None}
             error_msg == ErrorSignature(CHOOSE k \in K : \A m \in K : k <= m,
                                         section_text)
         IN  TestFailure(test_name, job_name,
                         IF K = {} THEN None
                         ELSE Prefix(error_msg, MAX_ERROR_MESSAGE_LENGTH),
                         Prefix(section_text, MAX_STACK_TRACE_LENGTH),
                         Prefix(section_text, MAX_LOG_SNIPPET_LENGTH))
    ELSE \* NAME.*?(?:\n.*?){0,10}: the name and the line breaks right after it
         LET I == {i \in 1..Len(log_text) : StartsWith(log_text, i, test_name)}
             i == CHOOSE x \in I : \A y \in I : x <= y
             n == RunOf({"\n"}, log_text, i + Len(test_name))
             context == SubSeq(log_text, i,
                               i + Len(test_name) + (IF n > 10 THEN 10 ELSE n) - 1)
         IN  TestFailure(test_name, job_name, None, None,
                         IF I = {} THEN None
                         ELSE Prefix(context, MAX_LOG_SNIPPET_LENGTH))

\* The failures for the names found: the job-level failure when there are
\* none, else the details of each.
FailuresOf(tests, log_text, job_name) ==
    IF tests = << >>
    THEN <<TestFailure(job_name, job_name, "Job failed without pytest test names",
                       None, Suffix(log_text, MAX_LOG_SNIPPET_LENGTH))>>
    ELSE [k \in 1..Len(tests) |-> TestDetails(log_text, job_name, tests[k])]

extract_test_failures_from_log(log_text, job_name) ==
    FailuresOf(unique_failed_tests(log_text), log_text, job_name)

\* re.search of (?:^WORD NODEID|^NODEID\s+WORD) with MULTILINE succeeds: at
\* the start of the text or of a line, the word, one space and the nodeid,
\* or the nodeid, white space and the word.
HasStatusLine(word, log_text, test_nodeid) ==
    \E i \in {1} \cup {k + 1 : k \in {n \in 1..Len(log_text) : Char(log_text, n) = "\n"}} :
        \/ StartsWith(log_text, i, word \o " " \o test_nodeid)
        \/ /\ StartsWith(log_text, i, test_nodeid)
           /\ RunOf(WhiteSpace, log_text, i + Len(test_nodeid)) > 0
           /\ StartsWith(log_text,
                         i + Len(test_nodeid)
                           + RunOf(WhiteSpace, log_text, i + Len(test_nodeid)),
                         word)

Outcome(found, status, error_message, log_excerpt) ==
    [found |-> found, status |-> status,
     error_message |-> error_message, log_excerpt |-> log_excerpt]

\* matching = [f for f in failures if f.test_name == test_nodeid] and the
\* outcome built from matching[0], if there is one.
FailOutcome(failures, test_nodeid) ==
    IF \E k \in DOMAIN failures : failures[k].test_name = test_nodeid
    THEN Outcome(TRUE, "fail",
                 failures[Least({k \in DOMAIN failures :
                                    failures[k].test_name = test_nodeid})].error_message,
                 failures[Least({k \in DOMAIN failures :
                                    failures[k].test_name = test_nodeid})].log_snippet)
    ELSE Outcome(TRUE, "fail", None, None)

\* find_test_outcome_in_log on the text of a log.
FindTestOutcome(log_text, test_nodeid) ==
    IF HasStatusLine("FAILED", log_text, test_nodeid)
       \/ HasStatusLine("ERROR", log_text, test_nodeid)
    THEN FailOutcome(extract_test_failures_from_log(log_text, ""), test_nodeid)
    ELSE IF HasStatusLine("PASSED", log_text, test_nodeid)
    THEN Outcome(TRUE, "pass", None, None)
    ELSE Outcome(FALSE, "unknown", None, None)

(***************************************************************************)
(* Build scans (server.py): scan_latest_nightly and scan_build.  The       *)
(* owner inference runs only when VLLM_REPO_PATH is set and is left out.   *)
(***************************************************************************)
\* An exception other than BuildkiteAPIError raised by a collaborator.
UnexpectedError == [error |-> "Exception"]

parse_job_json(raw, number) ==
    [job_id       |-> Get(raw, "id", "unknown"),
     job_name     |-> Get(raw, "name", Get(raw, "label", "Unknown Job")),
     state        |-> Get(raw, "state", "unknown"),
     passed       |-> Get(raw, "state", "unknown") = "passed",
     build_number |-> number]

analyzable_states == {"passed", "failed", "failing", "canceled"}

IsScheduled(b) == Get(b, "source", None) = "schedule"
IsAnalyzable(b) == Get(b, "state", None) \in analyzable_states
IsNightly(b) == IsScheduled(b) /\ IsAnalyzable(b)

\* Mutant: the first fallback relaxes the source filter, not the state filter.
nightly_builds_any_source(data) ==
    IF SelectSeq(data, IsNightly) # << >> THEN SelectSeq(data, IsNightly)
    ELSE IF SelectSeq(data, IsAnalyzable) # << >> THEN SelectSeq(data, IsAnalyzable)
    ELSE Prefix(data, 1)

\* The list whose first element scan_latest_nightly scans.
nightly_builds(data) ==
    IF SelectSeq(data, IsNightly) # << >> THEN SelectSeq(data, IsNightly)
    ELSE IF SelectSeq(data, IsScheduled) # << >> THEN SelectSeq(data, IsScheduled)
    ELSE IF SelectSeq(data, IsAnalyzable) # << >>
         THEN Prefix(SelectSeq(data, IsAnalyzable), 1)
    ELSE Prefix(data, 1)

\* The build number scan_build takes from build_id_or_url, None when the
\* URL holds no /builds/(\d+).
ParseBuildRef(build_id_or_url) ==
    LET I == {i \in 1..Len(build_id_or_url) :
                /\ StartsWith(build_id_or_url, i, "/builds/")
                /\ DigitRun(build_id_or_url, i + 8) > 0}
        i == CHOOSE x \in I : \A y \in I : x <= y
    IN  IF ~StartsWith(build_id_or_url, 1, "http") THEN build_id_or_url
        ELSE IF I = {} THEN None
        ELSE SubSeq(build_id_or_url, i + 8, i + 7 + DigitRun(build_id_or_url, i + 8))

\* The dict scan_build hands to parse_build_json.
build_info_dict(number) ==
    [build_number |-> number, branch |-> "unknown", commit |-> "unknown",
     state |-> "unknown", created_at |-> "now"]

NotPassed(j) == ~j.passed

\* failed_jobs[:MAX_FAILED_JOBS_TO_PROCESS]
JobsToProcess(jobs) == Prefix(SelectSeq(jobs, NotPassed), MAX_FAILED_JOBS_TO_PROCESS)

\* The classifications one job's log adds to all_failures.
ClassifyAll(test_failures, search_github, search) ==
    [k \in DOMAIN test_failures |->
        classify_failure(test_failures[k], search_github, search, search)]

_apply_detail_level(failures, detail_level) ==
    [k \in DOMAIN failures |->
        LET f == failures[k]
            tf == f.test_failure
        IN  CASE detail_level = "minimal" ->
                     [f EXCEPT !.test_failure =
                                   [tf EXCEPT !.error_message = None,
                                              !.stack_trace = None,
                                              !.log_snippet = None],
                               !.github_issue = None,
                               !.reason = None]
              [] detail_level = "summary" ->
                     [f EXCEPT !.test_failure =
                                   [tf EXCEPT !.stack_trace = None,
                                              !.log_snippet =
                                                  IF Truthy(@) /\ Len(@) > 200
                                                  THEN Prefix(@, 200) \o "..."
                                                  ELSE @]]
              [] OTHER -> f]

\* The response of a scan that ran to its end.
ScanResponse(info, jobs, failed, failures, max_failures, detail_level) ==
    [build_info  |-> info,
     total_jobs  |-> Len(jobs),
     failed_jobs |-> Len(failed),
     failures    |-> _apply_detail_level(
                         Prefix(deduplicate_failures(failures), max_failures),
                         detail_level)]

\* repr() of a list of names, and of a name.
ReprList(items) == "[" \o Join(items, ", ") \o "]"
Repr(s) == IF s = None THEN s ELSE "'" \o s \o "'"

\* Mutant: with several matches the first one is returned.
_match_job_by_name_first(job_name_or_id, jobs, strategy) ==
    LET Matches(j) ==
            CASE strategy = "id" -> Get(j, "id", None) = job_name_or_id
              [] strategy = "exact" -> Get(j, "name", None) = job_name_or_id
              [] strategy = "fuzzy" ->
                     Contains(Lower(Get(j, "name", "")), Lower(job_name_or_id))
              [] OTHER -> FALSE
        matches == SelectSeq(jobs, Matches)
    IN  IF matches # << >> THEN [job |-> <<matches[1]>>, error |-> None]
        ELSE [job |-> << >>, error |-> "not found"]

\* The pair (matched_job, error_message): job is <<j>> or << >>.
_match_job_by_name(job_name_or_id, jobs, strategy) ==
    LET ById(j) == Get(j, "id", None) = job_name_or_id
        ByName(j) == Get(j, "name", None) = job_name_or_id
        pattern == Lower(job_name_or_id)
        BySubstring(j) == Contains(Lower(Get(j, "name", "")), pattern)
        matches == IF strategy = "exact" THEN SelectSeq(jobs, ByName)
                   ELSE SelectSeq(jobs, BySubstring)
        available == [i \in DOMAIN jobs |-> Repr(Get(jobs[i], "name", None))]
        candidates == [i \in DOMAIN matches |->
                          "{'id': " \o Repr(matches[i].id)
                          \o ", 'name': " \o Repr(matches[i].name) \o "}"]
    IN  CASE strategy = "id" ->
                 IF SelectSeq(jobs, ById) # << >>
                 THEN [job |-> <<SelectSeq(jobs, ById)[1]>>, error |-> None]
                 ELSE [job |-> << >>,
                       error |-> "Job ID " \o job_name_or_id \o " not found"]
          [] strategy = "exact" ->
                 IF Len(matches) = 1 THEN [job |-> <<matches[1]>>, error |-> None]
                 ELSE IF Len(matches) = 0
                 THEN [job |-> << >>,
                       error |-> "Job '" \o job_name_or_id \o "' not found"]
                 ELSE [job |-> << >>,
                       error |-> "Multiple exact matches for '" \o job_name_or_id \o "'"]
          [] strategy = "fuzzy" ->
                 IF Len(matches) = 1 THEN [job |-> <<matches[1]>>, error |-> None]
                 ELSE IF Len(matches) = 0
                 THEN [job |-> << >>,
                       error |-> "No jobs match '" \o job_name_or_id
                                 \o "'. Available: " \o ReprList(available)]
                 ELSE [job |-> << >>,
                       error |-> "Multiple matches. Candidates: " \o ReprList(candidates)]
          [] OTHER ->
                 [job |-> << >>, error |-> "Unknown match strategy: " \o strategy]

(***************************************************************************)
(* SpecBudget: any sequence of calls on one budget.                        *)
(***************************************************************************)
\* The value of a local that has not been assigned yet.
Unassigned == [unassigned |-> TRUE]

NoScan ==
    /\ builds_parsed = << >>
    /\ bi = 0
    /\ failed_jobs = << >>
    /\ passed_jobs = << >>
    /\ ji = 0
    /\ outcome = Unassigned
    /\ timeline = << >>
    /\ result = Unassigned
    /\ fetches = << >>
    /\ builds_data = << >>
    /\ scan_build_number = None
    /\ scan_build_info = Unassigned
    /\ job_infos = << >>
    /\ all_failures = << >>
    /\ step = 0
    /\ suspended = Unassigned

NoHistory == pc = "idle" /\ NoScan

NoCall == arg = None /\ ret = None

NoBudgetCalls ==
    /\ call = [op |-> "init"]
    /\ denied = {}
    /\ firstDenial = -1

InitBudget ==
    /\ \E m \in 1..MaxBudget :
          budget = ResourceBudget(MAX_JOBS_PER_BUILD_FOR_TEST_HISTORY, m)
    /\ NoBudgetCalls
    /\ NoHistory
    /\ NoCall

CanFetchLog(estimated_size) ==
    LET r == can_fetch_log(budget, estimated_size) IN
    /\ budget' = r.budget
    /\ call' = [op |-> "can_fetch_log", estimated_size |-> estimated_size, ret |-> r.ret]
    /\ denied' = IF r.ret THEN denied ELSE denied \cup {estimated_size}
    /\ firstDenial' = IF ~r.ret /\ firstDenial = -1 THEN budget.total_log_bytes
                      ELSE firstDenial
    /\ UNCHANGED <<historyVars, callVars>>

RecordLogFetch(actual_size) ==
    /\ budget.total_log_bytes + actual_size <= MaxTotal
    /\ budget' = record_log_fetch(budget, actual_size)
    /\ call' = [op |-> "record_log_fetch", actual_size |-> actual_size]
    /\ UNCHANGED <<denied, firstDenial, historyVars, callVars>>

NextBudget ==
    \/ \E e \in 0..MaxEstimate : CanFetchLog(e)
    \/ \E n \in 0..MaxActual : RecordLogFetch(n)

SpecBudget == InitBudget /\ [][NextBudget]_vars

(***************************************************************************)
(* SpecAssess: assess_test_history applied to every timeline of at most    *)
(* MaxEntries entries drawn from EntryShapes.                              *)
(***************************************************************************)
JobOutcome(status, fingerprint) ==
    [job_name |-> "Tests", status |-> status, fingerprint_normalized |-> fingerprint]

\* (test_found, test_status, jobs) of an entry: what find_test_in_build can
\* produce.
EntryShapes ==
    { <<FALSE, "unknown", << >> >>,
      <<TRUE, "pass", <<JobOutcome("pass", None)>> >>,
      <<TRUE, "fail", <<JobOutcome("fail", "Error A")>> >>,
      <<TRUE, "fail", <<JobOutcome("fail", None)>> >>,
      <<TRUE, "fail", <<JobOutcome("fail", "Error A"), JobOutcome("fail", "Error B")>> >> }

BuildNumber(i) == <<"101", "102", "103", "104", "105", "106", "107", "108">>[i]

TimelineOf(shapes) ==
    [i \in 1..Len(shapes) |->
        [build_number |-> BuildNumber(i),
         created_at   |-> i,
         test_found   |-> shapes[i][1],
         test_status  |-> shapes[i][2],
         jobs         |-> shapes[i][3]]]

Timelines ==
    {TimelineOf(sh) : sh \in UNION {[1..n -> EntryShapes] : n \in 0..MaxEntries}}

InitAssess ==
    /\ arg \in Timelines
    /\ ret = None
    /\ pc = "call"
    /\ budget = None
    /\ NoBudgetCalls
    /\ NoScan

CallAssess ==
    /\ pc = "call"
    /\ pc' = "returned"
    /\ ret' = assess_test_history(arg)
    /\ UNCHANGED <<arg, budgetVars, scanVars>>

NextAssess == CallAssess

SpecAssess == InitAssess /\ [][NextAssess]_vars

(***************************************************************************)
(* SpecHistory: one get_test_history invocation.  Each action is the code  *)
(* between two awaits of find_test_in_job: one build fetched, or one job   *)
(* searched.                                                               *)
(***************************************************************************)
JobStates == {"failed", "passed", "running"}

JobName(i) == IF i % 2 = 1 THEN "GPU Tests" ELSE "CPU Tests"

JobFilters == {None, "gpu"}

\* The job lists get_build can answer with: job i of the list has id i.
JobLists ==
    {[i \in DOMAIN st |-> [id |-> i, name |-> JobName(i), state |-> st[i]]] :
        st \in UNION {[1..n -> JobStates] : n \in 0..MaxJobs}}

\* The build lists list_builds can answer with, in API order.
BuildLists ==
    UNION {{[i \in 1..n |-> [number |-> BuildNumber(i), created_at |-> at[i]]] :
               at \in [1..n -> 1..MaxTime]} : n \in 0..MaxBuilds}

\* The sizes of the logs get_job_log answers with: one far below the
\* budget, one that leaves less than the estimate of a further fetch.
SmallLog == 1000
LargeLog == 250000

Log(size, found, status, fingerprint_raw, error_message) ==
    [size |-> size, found |-> found, status |-> status,
     fingerprint_raw |-> fingerprint_raw, error_message |-> error_message]

\* The logs get_job_log can answer with.
Logs ==
    {Log(SmallLog, FALSE, "unknown", None, None),
     Log(SmallLog, TRUE, "pass", None, None),
     Log(SmallLog, TRUE, "fail", "AssertionError: <NUM>", "AssertionError: 42"),
     Log(SmallLog, TRUE, "fail", None, "Error at 0x7f8a"),
     Log(SmallLog, TRUE, "fail", None, None),
     Log(LargeLog, FALSE, "unknown", None, None),
     Log(LargeLog, TRUE, "fail", "AssertionError: <NUM>", "AssertionError: 42")}

InitHistory ==
    /\ pc = "start"
    /\ budget = ResourceBudget(MAX_JOBS_PER_BUILD_FOR_TEST_HISTORY,
                               MAX_LOG_BYTES_FOR_TEST_HISTORY)
    /\ arg \in {[job_filter |-> f] : f \in JobFilters}
    /\ ret = None
    /\ NoBudgetCalls
    /\ NoScan

\* list_builds raises BuildkiteAPIError.
ListBuildsFails ==
    /\ pc = "start"
    /\ pc' = "done"
    /\ result' = [error |-> APIError.error]
    /\ UNCHANGED <<builds_parsed, bi, failed_jobs, passed_jobs, ji, outcome,
                   timeline, fetches, budgetVars, callVars, toolVars>>

ListBuilds(builds_raw) ==
    /\ pc = "start"
    /\ IF builds_raw = << >>
       THEN /\ pc' = "done"
            /\ result' = NoBuildsResult
            /\ UNCHANGED <<builds_parsed, bi>>
       ELSE /\ pc' = "scan"
            /\ builds_parsed' = ParseAndSort(builds_raw)
            /\ bi' = 1
            /\ UNCHANGED result
    /\ UNCHANGED <<failed_jobs, passed_jobs, ji, outcome, timeline, fetches,
                   budgetVars, callVars, toolVars>>

\* The for loop over builds_parsed is over: assess and return.
EndOfBuilds ==
    /\ pc = "scan"
    /\ bi > Len(builds_parsed)
    /\ pc' = "done"
    /\ result' = HistoryResult(timeline, budget)
    /\ UNCHANGED <<builds_parsed, bi, failed_jobs, passed_jobs, ji, outcome,
                   timeline, fetches, budgetVars, callVars, toolVars>>

\* Mutant: the warning of the break is appended twice.
StopScanning_warns_twice ==
    /\ pc = "scan"
    /\ bi <= Len(builds_parsed)
    /\ budget.exhausted
    /\ budget' = [budget EXCEPT !.warnings = @ \o <<StoppedWarning(Len(timeline)),
                                                      StoppedWarning(Len(timeline))>>]
    /\ pc' = "done"
    /\ result' = HistoryResult(timeline, budget')
    /\ UNCHANGED <<builds_parsed, bi, failed_jobs, passed_jobs, ji, outcome,
                   timeline, fetches, call, denied, firstDenial, callVars, toolVars>>

\* if budget.exhausted: warn and break; then assess and return.
StopScanning ==
    /\ pc = "scan"
    /\ bi <= Len(builds_parsed)
    /\ budget.exhausted
    /\ budget' = [budget EXCEPT !.warnings = Append(@, StoppedWarning(Len(timeline)))]
    /\ pc' = "done"
    /\ result' = HistoryResult(timeline, budget')
    /\ UNCHANGED <<builds_parsed, bi, failed_jobs, passed_jobs, ji, outcome,
                   timeline, fetches, call, denied, firstDenial, callVars, toolVars>>

\* find_test_in_build returns the outcome: the entry is appended.
AppendEntry(o) ==
    /\ timeline' = Append(timeline, TimelineEntry(builds_parsed[bi], o))
    /\ bi' = bi + 1
    /\ pc' = "scan"

\* Mutant: a build whose jobs cannot be fetched is passed over.
GetBuildFails_no_entry ==
    /\ pc = "scan"
    /\ bi <= Len(builds_parsed)
    /\ ~budget.exhausted
    /\ bi' = bi + 1
    /\ UNCHANGED <<pc, timeline, builds_parsed, failed_jobs, passed_jobs, ji, outcome,
                   result, fetches, budgetVars, callVars, toolVars>>

\* get_build raises BuildkiteAPIError: the build is recorded as not found.
GetBuildFails ==
    /\ pc = "scan"
    /\ bi <= Len(builds_parsed)
    /\ ~budget.exhausted
    /\ AppendEntry(TestOutcome)
    /\ UNCHANGED <<builds_parsed, failed_jobs, passed_jobs, ji, outcome, result,
                   fetches, budgetVars, callVars, toolVars>>

GetBuild(all_jobs) ==
    /\ pc = "scan"
    /\ bi <= Len(builds_parsed)
    /\ ~budget.exhausted
    /\ LET jobs == FilterJobs(all_jobs, arg.job_filter) IN
          /\ failed_jobs' = FailedJobsOf(jobs, budget)
          /\ passed_jobs' = PassedJobsOf(jobs, budget)
    /\ outcome' = TestOutcome
    /\ ji' = 1
    /\ pc' = "failed"
    /\ UNCHANGED <<builds_parsed, bi, timeline, result, fetches, budgetVars, callVars, toolVars>>

\* One iteration of a job loop: find_test_in_job on jobs[ji].
SearchJob(jobs, response) ==
    LET r == find_test_in_job(builds_parsed[bi].build_number, jobs[ji], budget, response)
    IN  /\ budget' = r.budget
        /\ outcome' = UpdateOutcome(outcome, r.result)
        /\ fetches' = IF r.fetched
                      THEN Append(fetches, [build |-> builds_parsed[bi].build_number,
                                            job   |-> jobs[ji].id,
                                            state |-> jobs[ji].state,
                                            found |-> r.result # << >>,
                                            raised |-> response = APIError])
                      ELSE fetches
        /\ ji' = ji + 1
        /\ UNCHANGED <<pc, builds_parsed, bi, failed_jobs, passed_jobs, timeline,
                       result, call, denied, firstDenial, callVars, toolVars>>

SearchFailedJob(response) ==
    /\ pc = "failed"
    /\ ji <= Len(failed_jobs)
    /\ ~budget.exhausted
    /\ SearchJob(failed_jobs, response)

\* The failed loop is over (or broken): go on to the passed jobs, or return.
EndFailedJobs ==
    /\ pc = "failed"
    /\ (ji > Len(failed_jobs) \/ budget.exhausted)
    /\ IF SearchPassedJobs(outcome, budget)
       THEN /\ pc' = "passed"
            /\ ji' = 1
            /\ UNCHANGED <<bi, timeline>>
       ELSE /\ AppendEntry(outcome)
            /\ UNCHANGED ji
    /\ UNCHANGED <<builds_parsed, failed_jobs, passed_jobs, outcome, result,
                   fetches, budgetVars, callVars, toolVars>>

SearchPassedJob(response) ==
    /\ pc = "passed"
    /\ ji <= Len(passed_jobs)
    /\ ~budget.exhausted
    /\ SearchJob(passed_jobs, response)

EndPassedJobs ==
    /\ pc = "passed"
    /\ (ji > Len(passed_jobs) \/ budget.exhausted)
    /\ AppendEntry(outcome)
    /\ UNCHANGED <<builds_parsed, failed_jobs, passed_jobs, ji, outcome, result,
                   fetches, budgetVars, callVars, toolVars>>

NextHistory ==
    \/ ListBuildsFails
    \/ \E builds_raw \in BuildLists : ListBuilds(builds_raw)
    \/ EndOfBuilds
    \/ StopScanning
    \/ GetBuildFails
    \/ \E all_jobs \in JobLists : GetBuild(all_jobs)
    \/ \E response \in {APIError} \cup Logs : SearchFailedJob(response)
    \/ EndFailedJobs
    \/ \E response \in {APIError} \cup Logs : SearchPassedJob(response)
    \/ EndPassedJobs

SpecHistory == InitHistory /\ [][NextHistory]_vars

\* The invocation is one coroutine that runs on whenever the API answers.
SpecHistoryLive == SpecHistory /\ WF_vars(NextHistory)

(***************************************************************************)
(* SpecJobCap: get_test_history on builds that have more jobs than         *)
(* max_jobs_per_build.  The answers of get_job_log vary for the first      *)
(* MaxVariedJobs jobs of a partition; after them the test is not found.    *)
(***************************************************************************)
MaxExtraJobs == 2
MaxVariedJobs == 1

\* Builds of max_jobs_per_build + MaxExtraJobs jobs: k failed jobs, then
\* passed jobs, with a running job in between or not.
LongJobLists ==
    LET n == MAX_JOBS_PER_BUILD_FOR_TEST_HISTORY + MaxExtraJobs IN
    {[i \in 1..n |-> [id |-> i, name |-> "GPU Tests",
                      state |-> IF i <= k THEN "failed"
                                ELSE IF i = k + 1 THEN s ELSE "passed"]] :
        k \in {0, 1, MAX_JOBS_PER_BUILD_FOR_TEST_HISTORY - 1,
               MAX_JOBS_PER_BUILD_FOR_TEST_HISTORY, n},
        s \in {"passed", "running"}}

LongBuildLists ==
    {[i \in 1..n |-> [number |-> BuildNumber(i), created_at |-> i]] : n \in 1..MaxBuilds}

JobCapLogs ==
    IF ji <= MaxVariedJobs THEN {APIError} \cup Logs
    ELSE {Log(SmallLog, FALSE, "unknown", None, None)}

NextJobCap ==
    \/ \E builds_raw \in LongBuildLists : ListBuilds(builds_raw)
    \/ EndOfBuilds
    \/ StopScanning
    \/ GetBuildFails
    \/ \E all_jobs \in LongJobLists : GetBuild(all_jobs)
    \/ \E response \in JobCapLogs : SearchFailedJob(response)
    \/ EndFailedJobs
    \/ \E response \in JobCapLogs : SearchPassedJob(response)
    \/ EndPassedJobs

SpecJobCap == InitHistory /\ [][NextJobCap]_vars

(***************************************************************************)
(* SpecPair: two get_test_history invocations in one process.  Each has    *)
(* its own arguments and its own locals (client, budget, builds, timeline, *)
(* test_history.py 240-244); the process runs one of them at a time and    *)
(* can change over at every API call.  The variables of SpecHistory hold   *)
(* the invocation that runs, suspended holds the one that waits.  A        *)
(* client's answers are fixed when the invocation starts (arg.api).        *)
(***************************************************************************)
Api(list_fails, builds, build_fails, jobs, logs) ==
    [list_fails |-> list_fails, builds |-> builds,
     build_fails |-> build_fails, jobs |-> jobs, logs |-> logs]

PairResponses ==
    {APIError,
     Log(SmallLog, FALSE, "unknown", None, None),
     Log(LargeLog, TRUE, "fail", "AssertionError: <NUM>", "AssertionError: 42")}

PairBuildLists == {bl \in BuildLists : \A i \in DOMAIN bl : bl[i].created_at = 1}

PairJobLists ==
    {jl \in JobLists : /\ Len(jl) = MaxJobs
                       /\ jl[1].state = "failed"
                       /\ \A i \in DOMAIN jl : jl[i].state # "running"}

NoLogs == [j \in 1..MaxJobs |-> APIError]

\* What a client can answer with: list_builds raises; or it lists builds
\* and get_build raises; or get_build lists jobs and get_job_log answers
\* each job with a log or raises.
PairApis ==
    {Api(TRUE, << >>, FALSE, << >>, NoLogs)}
    \cup {Api(FALSE, bl, TRUE, << >>, NoLogs) : bl \in PairBuildLists}
    \cup {Api(FALSE, bl, FALSE, jl, lg) :
             bl \in PairBuildLists \ {<< >>}, jl \in PairJobLists,
             lg \in [1..MaxJobs -> PairResponses]}

\* The locals of the invocation that runs.
Current ==
    [arg |-> arg, budget |-> budget, pc |-> pc, builds_parsed |-> builds_parsed,
     bi |-> bi, failed_jobs |-> failed_jobs, passed_jobs |-> passed_jobs,
     ji |-> ji, outcome |-> outcome, timeline |-> timeline, result |-> result,
     fetches |-> fetches]

\* The locals of an invocation entered with the argument a.
Started(a) ==
    [arg |-> a,
     budget |-> ResourceBudget(MAX_JOBS_PER_BUILD_FOR_TEST_HISTORY,
                               MAX_LOG_BYTES_FOR_TEST_HISTORY),
     pc |-> "start", builds_parsed |-> << >>, bi |-> 0, failed_jobs |-> << >>,
     passed_jobs |-> << >>, ji |-> 0, outcome |-> Unassigned, timeline |-> << >>,
     result |-> Unassigned, fetches |-> << >>]

InitPair ==
    /\ arg \in {[job_filter |-> None, id |-> 1, api |-> a] : a \in PairApis}
    /\ budget = ResourceBudget(MAX_JOBS_PER_BUILD_FOR_TEST_HISTORY,
                               MAX_LOG_BYTES_FOR_TEST_HISTORY)
    /\ pc = "start"
    /\ builds_parsed = << >>
    /\ bi = 0
    /\ failed_jobs = << >>
    /\ passed_jobs = << >>
    /\ ji = 0
    /\ outcome = Unassigned
    /\ timeline = << >>
    /\ result = Unassigned
    /\ fetches = << >>
    /\ suspended \in {Started([job_filter |-> None, id |-> 2, api |-> a]) : a \in PairApis}
    /\ ret = None
    /\ NoBudgetCalls
    /\ builds_data = << >>
    /\ scan_build_number = None
    /\ scan_build_info = Unassigned
    /\ job_infos = << >>
    /\ all_failures = << >>
    /\ step = 0

\* Mutant: the two invocations work on one budget object.
Switch_shared_budget ==
    /\ suspended.pc # "done"
    /\ suspended' = Current
    /\ arg' = suspended.arg
    /\ pc' = suspended.pc
    /\ builds_parsed' = suspended.builds_parsed
    /\ bi' = suspended.bi
    /\ failed_jobs' = suspended.failed_jobs
    /\ passed_jobs' = suspended.passed_jobs
    /\ ji' = suspended.ji
    /\ outcome' = suspended.outcome
    /\ timeline' = suspended.timeline
    /\ result' = suspended.result
    /\ fetches' = suspended.fetches
    /\ UNCHANGED <<budget, call, denied, firstDenial, ret, builds_data, scan_build_number,
                   scan_build_info, job_infos, all_failures, step>>

\* The invocation that runs waits at an API call (or has returned) and the
\* other one, not yet returned, goes on with its own locals.
Switch ==
    /\ suspended.pc # "done"
    /\ suspended' = Current
    /\ arg' = suspended.arg
    /\ budget' = suspended.budget
    /\ pc' = suspended.pc
    /\ builds_parsed' = suspended.builds_parsed
    /\ bi' = suspended.bi
    /\ failed_jobs' = suspended.failed_jobs
    /\ passed_jobs' = suspended.passed_jobs
    /\ ji' = suspended.ji
    /\ outcome' = suspended.outcome
    /\ timeline' = suspended.timeline
    /\ result' = suspended.result
    /\ fetches' = suspended.fetches
    /\ UNCHANGED <<call, denied, firstDenial, ret, builds_data, scan_build_number,
                   scan_build_info, job_infos, all_failures, step>>

NextPair ==
    \/ Switch
    \/ arg.api.list_fails /\ ListBuildsFails
    \/ ~arg.api.list_fails /\ ListBuilds(arg.api.builds)
    \/ EndOfBuilds
    \/ StopScanning
    \/ arg.api.build_fails /\ GetBuildFails
    \/ ~arg.api.build_fails /\ GetBuild(arg.api.jobs)
    \/ /\ pc = "failed"
       /\ ji <= Len(failed_jobs)
       /\ SearchFailedJob(arg.api.logs[failed_jobs[ji].id])
    \/ EndFailedJobs
    \/ /\ pc = "passed"
       /\ ji <= Len(passed_jobs)
       /\ SearchPassedJob(arg.api.logs[passed_jobs[ji].id])
    \/ EndPassedJobs

SpecPair == InitPair /\ [][NextPair]_vars

(***************************************************************************)
(* SpecClassify: classify_failure applied to a failure, with or without    *)
(* the issue search, against the answers of the two GitHub searches.       *)
(***************************************************************************)
TestNames == {"t.py::test_add", "t.py::test_flaky_io"}
ErrorMessages == {None, "", "assert 1 == 2", "Connection Timed Out", "intermittent OOM"}
StackTraces == {None, "time", "x.py: disk full"}
LogSnippets == {None, "out", "PASSED on retry"}

Failures ==
    {[test_name |-> t, job_name |-> "GPU Tests", error_message |-> e,
      stack_trace |-> st, log_snippet |-> l] :
        t \in TestNames, e \in ErrorMessages, st \in StackTraces, l \in LogSnippets}

Issue(n, title, labels) ==
    [title |-> title, url |-> <<"issues", n>>, labels |-> labels]

\* What a search can answer with.
Searches ==
    LET named == Issue(1, "[CI Failure]: test_add", <<"ci-failure">>)
        byJob == Issue(2, "GPU Tests are red", <<"bug", "CI-Failure">>)
        other == Issue(3, "[CI Failure]: test_add", <<"bug">>)
        weak  == Issue(4, "Nightly is red", <<"ci-failure">>)
    IN  {CLIError} \cup {[issues |-> q] :
            q \in {<< >>, <<named>>, <<other, weak>>, <<weak, byJob, named>>}}

InitClassify ==
    /\ arg \in {[failure |-> f, search_github |-> g, exact |-> x, broad |-> b] :
                   f \in Failures, g \in BOOLEAN, x \in Searches, b \in Searches}
    /\ ret = None
    /\ pc = "call"
    /\ budget = None
    /\ NoBudgetCalls
    /\ NoScan

CallClassify ==
    /\ pc = "call"
    /\ pc' = "returned"
    /\ ret' = classify_failure(arg.failure, arg.search_github, arg.exact, arg.broad)
    /\ UNCHANGED <<arg, budgetVars, scanVars>>

NextClassify == CallClassify

SpecClassify == InitClassify /\ [][NextClassify]_vars

(***************************************************************************)
(* SpecDedup: deduplicate_failures applied to a list of classifications.   *)
(***************************************************************************)
FailureKeys == {"k1", "k2", "k3"}

\* Classifications that share a key differ in their category.
Classifications ==
    {[failure_key |-> k, category |-> c] :
        k \in FailureKeys, c \in {"NEW_REGRESSION", "INFRA_SUSPECTED"}}

InitDedup ==
    /\ arg \in UNION {[1..n -> Classifications] : n \in 0..MaxFailures}
    /\ ret = None
    /\ pc = "call"
    /\ budget = None
    /\ NoBudgetCalls
    /\ NoScan

CallDedup ==
    /\ pc = "call"
    /\ pc' = "returned"
    /\ ret' = deduplicate_failures(arg)
    /\ UNCHANGED <<arg, budgetVars, scanVars>>

NextDedup == CallDedup

SpecDedup == InitDedup /\ [][NextDedup]_vars

(***************************************************************************)
(* SpecScan: one invocation of scan_latest_nightly or scan_build against   *)
(* the answers of the Buildkite API and of the GitHub search.              *)
(***************************************************************************)
MaxScanJobs == 2
MaxVariedLogs == 2

ScanArgs ==
    {[tool |-> "scan_latest_nightly", build_id_or_url |-> None, search_github |-> TRUE,
      detail_level |-> d, max_failures |-> 50] : d \in {"summary", "minimal"}}
    \cup {[tool |-> "scan_build", build_id_or_url |-> "101",
           search_github |-> TRUE, detail_level |-> "summary", max_failures |-> 50],
          [tool |-> "scan_build",
           build_id_or_url |-> "https://buildkite.com/vllm/ci/builds/102#job-7",
           search_github |-> FALSE, detail_level |-> "summary", max_failures |-> 1],
          [tool |-> "scan_build", build_id_or_url |-> "https://buildkite.com/vllm/ci",
           search_github |-> TRUE, detail_level |-> "summary", max_failures |-> 50]}

ScanBuild(number, source, state) ==
    [number |-> number, created_at |-> "now", source |-> source, state |-> state]

\* The builds list_builds can answer with, newest first.
ScanBuildLists ==
    {<< >>,
     <<ScanBuild("103", "webhook", "failed"), ScanBuild("102", "schedule", "failed"),
       ScanBuild("101", "schedule", "passed")>>,
     <<ScanBuild("103", "schedule", "running"), ScanBuild("102", "webhook", "passed")>>}

\* The job lists get_build can answer with: every list of up to
\* MaxScanJobs jobs, and lists of one job more than a scan processes.
ScanJobLists ==
    {[i \in DOMAIN st |-> [id |-> i, name |-> JobName(i), state |-> st[i]]] :
        st \in UNION {[1..n -> JobStates] : n \in 0..MaxScanJobs}
               \cup {[i \in 1..(MAX_FAILED_JOBS_TO_PROCESS + 1) |->
                        IF i = p THEN s ELSE "failed"] :
                     p \in {2, MAX_FAILED_JOBS_TO_PROCESS + 1}, s \in JobStates}}

\* The logs get_job_log can answer with.
ScanLogs ==
    {[log_text |-> ""], [log_text |-> "FAILED a.py::t1 - boom\nb.py::t2 FAILED"]}

\* The answers of the issue search for the failures of one job.
ScanSearches ==
    {CLIError,
     [issues |-> <<Issue(7, "[CI Failure]: a.py::t1", <<CI_FAILURE_LABEL>>)>>]}

InitScan ==
    /\ pc = "start"
    /\ arg \in ScanArgs
    /\ ret = None
    /\ budget = None
    /\ NoBudgetCalls
    /\ NoScan

ScanDone(response) ==
    /\ pc' = "done"
    /\ result' = response

\* BuildkiteClient(), list_builds or get_build raises, or get_job_log
\* raises something else than BuildkiteAPIError: the handlers around the
\* whole body return an error record.
ScanRaises(e) ==
    /\ \/ pc \in {"start", "get_build"}
       \/ pc = "jobs" /\ ji <= Len(JobsToProcess(job_infos)) /\ e = UnexpectedError
    /\ ScanDone([error |-> IF e = APIError THEN e.error
                           ELSE "Unexpected error: " \o e.error])
    /\ UNCHANGED <<builds_parsed, bi, failed_jobs, passed_jobs, ji, outcome, timeline,
                   fetches, budgetVars, callVars, toolVars>>

\* scan_latest_nightly: list_builds answers and the build is selected.
ScanListBuilds(data) ==
    /\ pc = "start"
    /\ arg.tool = "scan_latest_nightly"
    /\ builds_data' = data
    /\ IF data = << >>
       THEN /\ ScanDone([error |-> "No builds found"])
            /\ UNCHANGED <<scan_build_info, scan_build_number>>
       ELSE /\ scan_build_info' = parse_build_json(nightly_builds(data)[1])
            /\ scan_build_number' = scan_build_info'.build_number
            /\ pc' = "get_build"
            /\ UNCHANGED result
    /\ UNCHANGED <<builds_parsed, bi, failed_jobs, passed_jobs, ji, outcome, timeline,
                   fetches, budgetVars, callVars, job_infos, all_failures, step, suspended>>

\* scan_build: the build number could not be taken from the URL.
ScanBadUrl ==
    /\ pc = "start"
    /\ arg.tool = "scan_build"
    /\ ParseBuildRef(arg.build_id_or_url) = None
    /\ ScanDone([error |-> "Could not parse build number from URL"])
    /\ UNCHANGED <<builds_parsed, bi, failed_jobs, passed_jobs, ji, outcome, timeline,
                   fetches, budgetVars, callVars, toolVars>>

\* get_build answers: the jobs are parsed and the jobs that did not pass
\* are kept.
ScanGetBuild(jobs_data) ==
    LET number == IF arg.tool = "scan_build"
                  THEN ParseBuildRef(arg.build_id_or_url) ELSE scan_build_number
    IN  /\ \/ pc = "get_build"
           \/ pc = "start" /\ arg.tool = "scan_build" /\ number # None
        /\ scan_build_number' = number
        /\ IF arg.tool = "scan_build" /\ jobs_data = << >>
           THEN /\ ScanDone([error |-> "No jobs found for build " \o number])
                /\ UNCHANGED <<scan_build_info, job_infos, failed_jobs, ji>>
           ELSE /\ job_infos' = [k \in DOMAIN jobs_data |->
                                    parse_job_json(jobs_data[k], number)]
                /\ failed_jobs' = SelectSeq(job_infos', NotPassed)
                /\ scan_build_info' =
                       IF arg.tool = "scan_build"
                       THEN parse_build_json(build_info_dict(number))
                       ELSE scan_build_info
                /\ ji' = 1
                /\ pc' = "jobs"
                /\ UNCHANGED result
        /\ UNCHANGED <<builds_parsed, bi, passed_jobs, outcome, timeline, fetches,
                       budgetVars, callVars, builds_data, all_failures, step, suspended>>

\* Mutant: a log that cannot be fetched ends the scan with an error record.
ScanJob_abort(response, search) ==
    /\ pc = "jobs"
    /\ ji <= Len(JobsToProcess(job_infos))
    /\ LET job == JobsToProcess(job_infos)[ji] IN
          /\ fetches' = Append(fetches, [build |-> scan_build_number,
                                         job   |-> job.job_id,
                                         state |-> job.state,
                                         raised |-> "error" \in DOMAIN response])
          /\ all_failures' =
                 IF "error" \in DOMAIN response THEN all_failures
                 ELSE all_failures
                      \o ClassifyAll(extract_test_failures_from_log(response.log_text,
                                                                 job.job_name),
                                     arg.search_github, search)
    /\ ji' = ji + 1
    /\ IF "error" \in DOMAIN response
       THEN ScanDone([error |-> response.error])
       ELSE UNCHANGED <<pc, result>>
    /\ UNCHANGED <<builds_parsed, bi, failed_jobs, passed_jobs, outcome, timeline,
                   budgetVars, callVars, builds_data, scan_build_number,
                   scan_build_info, job_infos, step, suspended>>

\* One iteration of the loop over failed_jobs[:MAX_FAILED_JOBS_TO_PROCESS]:
\* get_job_log answers with a log or raises BuildkiteAPIError.
ScanJob(response, search) ==
    /\ pc = "jobs"
    /\ ji <= Len(JobsToProcess(job_infos))
    /\ LET job == JobsToProcess(job_infos)[ji] IN
          /\ fetches' = Append(fetches, [build |-> scan_build_number,
                                         job   |-> job.job_id,
                                         state |-> job.state,
                                         raised |-> "error" \in DOMAIN response])
          /\ all_failures' =
                 IF "error" \in DOMAIN response THEN all_failures
                 ELSE all_failures
                      \o ClassifyAll(extract_test_failures_from_log(response.log_text,
                                                                 job.job_name),
                                     arg.search_github, search)
    /\ ji' = ji + 1
    /\ UNCHANGED <<pc, builds_parsed, bi, failed_jobs, passed_jobs, outcome, timeline,
                   result, budgetVars, callVars, builds_data, scan_build_number,
                   scan_build_info, job_infos, step, suspended>>

\* The loop is over: deduplicate and return the response.
ScanReturn ==
    /\ pc = "jobs"
    /\ ji > Len(JobsToProcess(job_infos))
    /\ ScanDone(ScanResponse(scan_build_info, job_infos, failed_jobs, all_failures,
                             arg.max_failures, arg.detail_level))
    /\ UNCHANGED <<builds_parsed, bi, failed_jobs, passed_jobs, ji, outcome, timeline,
                   fetches, budgetVars, callVars, toolVars>>

NextScan ==
    \/ \E e \in {APIError, UnexpectedError} : ScanRaises(e)
    \/ \E data \in ScanBuildLists : ScanListBuilds(data)
    \/ ScanBadUrl
    \/ \E jobs_data \in ScanJobLists : ScanGetBuild(jobs_data)
    \/ \E response \in (IF ji <= MaxVariedLogs THEN {APIError} \cup ScanLogs ELSE {[log_text |-> ""]}),
          search \in (IF arg.search_github /\ ji <= MaxVariedLogs
                      THEN ScanSearches ELSE {CLIError}) :
          ScanJob(response, search)
    \/ ScanReturn

SpecScan == InitScan /\ [][NextScan]_vars

(***************************************************************************)
(* SpecEither: one invocation of a build scan or of get_test_history.      *)
(***************************************************************************)
IsScan == "tool" \in DOMAIN arg

InitEither == InitScan \/ InitHistory

NextEither ==
    \/ IsScan /\ NextScan
    \/ ~IsScan /\ NextHistory

SpecEither == InitEither /\ [][NextEither]_vars

(***************************************************************************)
(* SpecSelect: the build selection of scan_latest_nightly applied to the   *)
(* answers of list_builds.                                                 *)
(***************************************************************************)
MaxListed == 3

BuildKinds ==
    {[source |-> "schedule", state |-> "passed"],
     [source |-> "schedule", state |-> "running"],
     [source |-> "webhook", state |-> "failed"],
     [source |-> "webhook", state |-> "scheduled"],
     [source |-> "ui", state |-> "failing"]}

\* Build i of a list, newest first, has the number 200 - i.
ListedBuilds ==
    {[i \in DOMAIN kinds |->
        [number |-> 200 - i, created_at |-> "now",
         source |-> kinds[i].source, state |-> kinds[i].state]] :
        kinds \in UNION {[1..n -> BuildKinds] : n \in 0..MaxListed}}

InitSelect ==
    /\ arg \in ListedBuilds
    /\ ret = Unassigned
    /\ pc = "call"
    /\ budget = None
    /\ NoBudgetCalls
    /\ NoScan

CallSelect ==
    /\ pc = "call"
    /\ pc' = "returned"
    /\ ret' = IF arg = << >> THEN [error |-> "No builds found"]
              ELSE parse_build_json(nightly_builds(arg)[1])
    /\ UNCHANGED <<arg, budgetVars, scanVars>>

NextSelect == CallSelect

SpecSelect == InitSelect /\ [][NextSelect]_vars

(***************************************************************************)
(* SpecMatch: _match_job_by_name applied to a job list, a name or id and   *)
(* a strategy.                                                             *)
(***************************************************************************)
MaxMatchJobs == 2

\* Jobs with equal names, names equal up to case, no name, and equal ids.
MatchJobs ==
    {[id |-> i, name |-> n] : i \in {"j1", "j2"},
                              n \in {"GPU Tests", "gpu tests", "CPU Tests"}}
    \cup {[id |-> i] : i \in {"j1", "j2"}}

MatchArgs ==
    {[job_name_or_id |-> x, jobs |-> jobs, strategy |-> s] :
        x \in {"GPU Tests", "gpu", "Tests", "j1", "TPU"},
        jobs \in UNION {[1..n -> MatchJobs] : n \in 0..MaxMatchJobs},
        s \in {"id", "exact", "fuzzy", "regex"}}

InitMatch ==
    /\ arg \in MatchArgs
    /\ ret = Unassigned
    /\ pc = "call"
    /\ budget = None
    /\ NoBudgetCalls
    /\ NoScan

CallMatch ==
    /\ pc = "call"
    /\ pc' = "returned"
    /\ ret' = _match_job_by_name(arg.job_name_or_id, arg.jobs, arg.strategy)
    /\ UNCHANGED <<arg, budgetVars, scanVars>>

NextMatch == CallMatch

SpecMatch == InitMatch /\ [][NextMatch]_vars

(***************************************************************************)
(* SpecBulk: the matching loop of get_test_analytics_bulk for one parsed   *)
(* nodeid (scope, test_name) against the tests of the suite.               *)
(***************************************************************************)
MaxSuiteTests == 2

\* name.split("[")[0] if "[" in name else name
BaseName(name) == Split(name, "[")[1]

\* The body of the loop over all_tests: whether test is appended to matches.
BulkMatches(scope, test_name, test) ==
    LET test_scope == Get(test, "scope", "")
        analytics_name == Get(test, "name", "")
    IN  /\ ~(Truthy(scope) /\ Truthy(test_scope) /\ scope # test_scope)
        /\ \/ test_name = analytics_name
           \/ BaseName(test_name) = BaseName(analytics_name)

bulk_matches(scope, test_name, all_tests) ==
    SelectSeq(all_tests, LAMBDA test : BulkMatches(scope, test_name, test))

\* The tests list_analytics_tests can answer with; a test may lack a scope.
SuiteTests ==
    {[id |-> n, name |-> n, scope |-> sc] :
        n \in {"test_x", "test_x[p1]", "test_y"}, sc \in {"tests/a.py", "tests/b.py", ""}}
    \cup {[id |-> n, name |-> n] : n \in {"test_x", "test_y"}}

InitBulk ==
    /\ arg \in [scope : {"", "tests/a.py"},
                test_name : {"test_x", "test_x[p1]", "test_x[p2]"},
                all_tests : UNION {[1..n -> SuiteTests] : n \in 0..MaxSuiteTests}]
    /\ ret = None
    /\ pc = "call"
    /\ budget = None
    /\ NoBudgetCalls
    /\ NoScan

CallBulk ==
    /\ pc = "call"
    /\ pc' = "returned"
    /\ ret' = bulk_matches(arg.scope, arg.test_name, arg.all_tests)
    /\ UNCHANGED <<arg, budgetVars, scanVars>>

NextBulk == CallBulk

SpecBulk == InitBulk /\ [][NextBulk]_vars

(***************************************************************************)
(* SpecDispatch: the tools of server.py as sequences of collaborator       *)
(* calls, each of which answers, answers with something the tool refuses,  *)
(* or raises; the try/except blocks decide what the tool returns.  A text  *)
(* the tool returns is the record [text |-> s].                            *)
(***************************************************************************)
MaxDispatchJobs == 2

Tools ==
    {"scan_latest_nightly", "scan_build", "test_history", "test_history_analytics",
     "get_job_test_failures", "get_test_analytics_bulk", "render"}

\* except clauses that return nothing and let the loop go on, or return a
\* record built from the exception.
Continue(class) == <<[class |-> class, returns |-> << >>]>>
Returning(class, prefix) == <<[class |-> class, returns |-> <<prefix>>]>>
NoHandler == << >>

\* One collaborator call: what it may raise besides an unexpected
\* Exception, the except clauses of the try block directly around it, the
\* records the tool returns when it cannot use the answer.  A call
\* the program makes only for some answers of the calls before it either
\* answers or is not made: DispatchAnswer covers both.
Collaborator(callee, raises, inner, refusals) ==
    [callee |-> callee, raises |-> raises, inner |-> inner,
     refusals |-> refusals]

NewClient == Collaborator("BuildkiteClient", {"BuildkiteAPIError"}, NoHandler, {})

JobCalls ==
    <<Collaborator("get_job_log", {"BuildkiteAPIError"}, Continue("BuildkiteAPIError"),
                   {}),
      Collaborator("classify_failure", {"CLIError"}, Continue("CLIError"), {})>>

RECURSIVE Times(_, _)
Times(calls, n) == IF n = 0 THEN << >> ELSE calls \o Times(calls, n - 1)

RenderCalls ==
    <<Collaborator("render_daily_findings", {}, NoHandler, {}),
      Collaborator("render_standup_summary", {}, NoHandler, {})>>

AnalyticsList(refusals) ==
    Collaborator("list_analytics_tests", {"BuildkiteAPIError"}, NoHandler,
                 refusals)

NotFound ==
    [error |-> "Test not found in Test Analytics",
     suggestion |-> "Try partial name or check if test exists in suite"]
MultipleMatch == [error |-> "Multiple tests match", matches |-> <<"t1", "t2">>]
NoBuildsOnBranch ==
    [error |-> "No builds found on branch", timeline |-> << >>,
     assessment |-> "INSUFFICIENT_DATA", summary |-> "No builds found for test"]

\* The calls of a tool in program order; a loop is unrolled MaxDispatchJobs
\* times.
Body(tool) ==
    CASE tool = "scan_latest_nightly" ->
           <<NewClient,
             Collaborator("list_builds", {"BuildkiteAPIError"}, NoHandler,
                          {[error |-> "No builds found"]}),
             Collaborator("get_build", {"BuildkiteAPIError"}, NoHandler, {})>>
           \o Times(JobCalls, MaxDispatchJobs) \o RenderCalls
      [] tool = "scan_build" ->
           <<NewClient,
             Collaborator("get_build", {"BuildkiteAPIError"}, NoHandler,
                          {[error |-> "No jobs found for build"]})>>
           \o Times(JobCalls, MaxDispatchJobs) \o RenderCalls
      [] tool = "test_history" ->
           <<NewClient,
             Collaborator("list_builds", {"BuildkiteAPIError"},
                          Returning("BuildkiteAPIError", ""), {NoBuildsOnBranch})>>
           \o Times(<<Collaborator("get_build", {"BuildkiteAPIError"},
                                   Continue("BuildkiteAPIError"), {}),
                      Collaborator("get_job_log", {"BuildkiteAPIError"},
                                   Continue("BuildkiteAPIError"), {})>>,
                    MaxDispatchJobs)
      [] tool = "test_history_analytics" ->
           <<NewClient,
             AnalyticsList({MultipleMatch}),
             AnalyticsList({NotFound, MultipleMatch}),
             AnalyticsList({}),
             AnalyticsList({})>>
      [] tool = "get_job_test_failures" ->
           <<NewClient,
             Collaborator("get_build", {"BuildkiteAPIError"}, NoHandler,
                          {[error |-> "No jobs found for build"],
                           [error |-> "No job matching"]}),
             Collaborator("get_job_log", {"BuildkiteAPIError"},
                          Returning("BuildkiteAPIError", "Could not fetch job log: "),
                          {})>>
      [] tool = "get_test_analytics_bulk" ->
           <<NewClient, AnalyticsList({}), AnalyticsList({}),
             AnalyticsList({})>>
      [] tool = "render" ->
           <<Collaborator("ScanResult", {"ValidationError"}, NoHandler, {}),
             Collaborator("render_daily_findings", {}, NoHandler,
                          {[text |-> "Unknown format"]})>>

\* The tool returns before its first call when it cannot read its input.
BadInput(tool) ==
    IF tool \in {"scan_build", "get_job_test_failures"}
    THEN {[error |-> "Could not parse build number from URL"]} ELSE {}

\* isinstance(e, class) for the exception classes of the program.
IsInstance(e, class) == class = "Exception" \/ e = class

\* The classes of the except clauses around the whole body of a tool, in
\* the order they are written.
api_only_handlers(tool) ==
    IF tool = "render" THEN << >>
    ELSE IF tool = "test_history" THEN <<"CLIError">> ELSE <<"BuildkiteAPIError">>

Handlers(tool) ==
    IF tool = "render" THEN <<"Exception">>
    ELSE IF tool = "test_history" THEN <<"CLIError", "Exception">>
    ELSE <<"BuildkiteAPIError", "Exception">>

\* What the except clause for class returns; str(e) is the name of e.
HandlerReturn(tool, class, e) ==
    IF tool = "render" THEN [text |-> "Error rendering: " \o e]
    ELSE IF class = "Exception" THEN [error |-> "Unexpected error: " \o e]
    ELSE [error |-> e]

\* What the tool returns when every call has answered.
Completed(tool) ==
    IF tool = "render" THEN [text |-> "rendered"] ELSE [result |-> tool]

\* The first except clause of a list that catches e, << >> when none does.
FirstCatching(classes, e) ==
    LET S == {k \in DOMAIN classes : IsInstance(e, classes[k])}
    IN  IF S = {} THEN << >> ELSE <<classes[CHOOSE k \in S : \A m \in S : k <= m]>>

InitDispatch ==
    /\ pc = "start"
    /\ arg \in [tool : Tools]
    /\ ret = None
    /\ budget = None
    /\ NoBudgetCalls
    /\ NoScan

DispatchReturn(response) ==
    /\ pc' = "done"
    /\ result' = response

\* The input is refused before any call is made.
DispatchBadInput ==
    /\ pc = "start"
    /\ step = 0
    /\ \E response \in BadInput(arg.tool) : DispatchReturn(response)
    /\ UNCHANGED <<step, builds_parsed, bi, failed_jobs, passed_jobs, ji, outcome,
                   timeline, fetches, budgetVars, callVars, builds_data,
                   scan_build_number, scan_build_info, job_infos, all_failures, suspended>>

\* The next call answers (or is not made) and the tool goes on.
DispatchAnswer ==
    /\ pc \in {"start", "running"}
    /\ step < Len(Body(arg.tool))
    /\ step' = step + 1
    /\ pc' = "running"
    /\ UNCHANGED <<result, builds_parsed, bi, failed_jobs, passed_jobs, ji, outcome,
                   timeline, fetches, budgetVars, callVars, builds_data,
                   scan_build_number, scan_build_info, job_infos, all_failures, suspended>>

\* The next call answers with something the tool refuses.
DispatchRefuse ==
    /\ pc \in {"start", "running"}
    /\ step < Len(Body(arg.tool))
    /\ \E response \in Body(arg.tool)[step + 1].refusals : DispatchReturn(response)
    /\ step' = step + 1
    /\ UNCHANGED <<builds_parsed, bi, failed_jobs, passed_jobs, ji, outcome,
                   timeline, fetches, budgetVars, callVars, builds_data,
                   scan_build_number, scan_build_info, job_infos, all_failures, suspended>>

\* The next call raises e: the try block around the call handles it, or
\* the try block around the body, or nothing does.
DispatchRaise(e) ==
    /\ pc \in {"start", "running"}
    /\ step < Len(Body(arg.tool))
    /\ LET c == Body(arg.tool)[step + 1]
           inner == SelectSeq(c.inner, LAMBDA h : IsInstance(e, h.class))
           outer == FirstCatching(Handlers(arg.tool), e)
       IN  /\ e \in c.raises \cup {"Exception"}
           /\ IF inner # << >>
              THEN IF inner[1].returns = << >>
                   THEN pc' = "running" /\ UNCHANGED result
                   ELSE DispatchReturn([error |-> inner[1].returns[1] \o e])
              ELSE IF outer # << >>
                   THEN DispatchReturn(HandlerReturn(arg.tool, outer[1], e))
                   ELSE pc' = "raised" /\ result' = [exception |-> e]
    /\ step' = step + 1
    /\ UNCHANGED <<builds_parsed, bi, failed_jobs, passed_jobs, ji, outcome,
                   timeline, fetches, budgetVars, callVars, builds_data,
                   scan_build_number, scan_build_info, job_infos, all_failures, suspended>>

\* Every call has answered: the tool returns its result.
DispatchComplete ==
    /\ pc = "running"
    /\ step = Len(Body(arg.tool))
    /\ DispatchReturn(Completed(arg.tool))
    /\ UNCHANGED <<step, builds_parsed, bi, failed_jobs, passed_jobs, ji, outcome,
                   timeline, fetches, budgetVars, callVars, builds_data,
                   scan_build_number, scan_build_info, job_infos, all_failures, suspended>>

Exceptions == {"BuildkiteAPIError", "CLIError", "ValidationError", "Exception"}

NextDispatch ==
    \/ DispatchBadInput
    \/ DispatchAnswer
    \/ DispatchRefuse
    \/ \E e \in Exceptions : DispatchRaise(e)
    \/ DispatchComplete

SpecDispatch == InitDispatch /\ [][NextDispatch]_vars

\* The event loop runs a started tool until it returns or raises.
SpecDispatchLive == SpecDispatch /\ WF_vars(NextDispatch)

(***************************************************************************)
(* SpecNormalize: normalize_failure_fingerprint applied to a message.      *)
(***************************************************************************)
MaxMessageLen == 4

MessageChars == {"0", "7", "x", "f", ".", "-"}

RECURSIVE MessagesUpTo(_)
MessagesUpTo(n) ==
    IF n = 0 THEN {""}
    ELSE LET shorter == MessagesUpTo(n - 1)
         IN  shorter \cup {m \o c : m \in shorter, c \in MessageChars}

\* Messages that hold a UUID, a timestamp or one of each kind of value,
\* alone or directly next to other characters.
LongMessages ==
    LET values == {"123e4567-e89b-12d3-a456-426614174000", "2024-01-22T10:00:00",
                   "2024-01-22 10:00:00.590",
                   "id 123e4567-e89b-12d3-a456-426614174000 at 2024-01-22 10:00:00 0x7f8a3c 0.590 42"}
        around == {"", "0", "0x", "f", "-", "."}
    IN  {p \o v \o q : p \in around, v \in values, q \in around}

Messages == MessagesUpTo(MaxMessageLen) \cup LongMessages

InitNormalize ==
    /\ arg \in Messages
    /\ ret = None
    /\ pc = "call"
    /\ budget = None
    /\ NoBudgetCalls
    /\ NoScan

CallNormalize ==
    /\ pc = "call"
    /\ pc' = "returned"
    /\ ret' = normalize_failure_fingerprint(arg)
    /\ UNCHANGED <<arg, budgetVars, scanVars>>

NextNormalize == CallNormalize

SpecNormalize == InitNormalize /\ [][NextNormalize]_vars

(***************************************************************************)
(* SpecKey: generate_failure_key applied to two failures.                  *)
(***************************************************************************)
KeyJobNames == {"Job A", "job_a", "Job A::t.py"}
KeyTestNames == {"t.py::T::test_foo", "t.py::T", "T::test_foo"}
KeyErrorMessages ==
    {None, "", "test_foo", "test_foo\nassert 1 == 2",
     "eeeeeeeeeeeeeeeeeeeeeeeeeeeeeeeeeeeeeeeeeeeeeeeeeeeeeeeeeeeeeeeeeeeeeeeeeeeeeeeeeeeeeeeeeeeeeeeeeeee1", "eeeeeeeeeeeeeeeeeeeeeeeeeeeeeeeeeeeeeeeeeeeeeeeeeeeeeeeeeeeeeeeeeeeeeeeeeeeeeeeeeeeeeeeeeeeeeeeeeeee2"}

KeyFailures ==
    {TestFailure(t, j, e, None, None) :
        t \in KeyTestNames, j \in KeyJobNames, e \in KeyErrorMessages}

InitKey ==
    /\ arg \in KeyFailures \X KeyFailures
    /\ ret = None
    /\ pc = "call"
    /\ budget = None
    /\ NoBudgetCalls
    /\ NoScan

CallKey ==
    /\ pc = "call"
    /\ pc' = "returned"
    /\ ret' = <<generate_failure_key(arg[1]), generate_failure_key(arg[2])>>
    /\ UNCHANGED <<arg, budgetVars, scanVars>>

NextKey == CallKey

SpecKey == InitKey /\ [][NextKey]_vars

(***************************************************************************)
(* SpecExtract: extract_test_failures_from_log applied to a job log.       *)
(***************************************************************************)
MaxLogRepeat == 50

RECURSIVE Repeat(_, _)
\* s * n
Repeat(s, n) == IF n = 0 THEN "" ELSE s \o Repeat(s, n - 1)

\* Logs with and without the words FAILED and ERROR, with and without a
\* nodeid, alone or followed by output longer than a log snippet.
ExtractLogs ==
    {word \o name \o rest :
        word \in {"", "FAILED ", "ERROR ", "PASSED ",
                  "=== short test summary info ===\n"},
        name \in {"", "a.py::t1", "a.py", "::t1", "a.py::t1 FAILED", "a.py::t1 ERROR"},
        rest \in {"", "\n" \o Repeat("no tests ran\n", MaxLogRepeat)}}

ExtractJobNames == {"", "GPU Tests"}

InitExtract ==
    /\ arg \in [log_text : ExtractLogs, job_name : ExtractJobNames]
    /\ ret = None
    /\ pc = "call"
    /\ budget = None
    /\ NoBudgetCalls
    /\ NoScan

CallExtract ==
    /\ pc = "call"
    /\ pc' = "returned"
    /\ ret' = extract_test_failures_from_log(arg.log_text, arg.job_name)
    /\ UNCHANGED <<arg, budgetVars, scanVars>>

NextExtract == CallExtract

SpecExtract == InitExtract /\ [][NextExtract]_vars

(***************************************************************************)
(* SpecOrder: extract_test_failures_from_log applied to logs of up to      *)
(* MaxLogLines summary lines, FAILED and ERROR lines in any order.         *)
(***************************************************************************)
MaxLogLines == 3

LogLines ==
    {"FAILED a.py::t1 - boom", "FAILED b.py::t2 - boom", "ERROR b.py::t2 - boom",
     "a.py::t1 FAILED", "b.py::t2 ERROR", "c.py::t3 PASSED"}

RECURSIVE JoinLines(_)
\* "\n".join(lines)
JoinLines(lines) ==
    IF lines = << >> THEN ""
    ELSE IF Len(lines) = 1 THEN lines[1]
    ELSE lines[1] \o "\n" \o JoinLines(Tail(lines))

OrderLogs ==
    {JoinLines(lines) : lines \in UNION {[1..n -> LogLines] : n \in 1..MaxLogLines}}

InitOrder ==
    /\ arg \in [log_text : OrderLogs, job_name : {"GPU Tests"}]
    /\ ret = None
    /\ pc = "call"
    /\ budget = None
    /\ NoBudgetCalls
    /\ NoScan

NextOrder == CallExtract

SpecOrder == InitOrder /\ [][NextOrder]_vars

(***************************************************************************)
(* SpecOutcome: extract_test_failures_from_log and, for each name it       *)
(* returns, find_test_outcome_in_log applied to the same log: one or two   *)
(* status lines, plain, coloured or behind a Buildkite timestamp.          *)
(***************************************************************************)
MaxOutcomeLines == 2

OutcomeLines ==
    {"FAILED a.py::t1 - boom",
     "a.py::t1 FAILED",
     "ERROR a.py::t1",
     "a.py::t1 PASSED",
     "PASSED b.py::t2",
     "FAILED  b.py::t2",
     "[gw0] FAILED b.py::t2",
     ESC \o "[31mFAILED" \o ESC \o "[0m a.py::t1",
     "_bk;t=1700000000000" \o BEL \o "FAILED a.py::t1",
     "collected 2 items"}

OutcomeLogs ==
    {JoinLines(lines) :
        lines \in UNION {[1..n -> OutcomeLines] : n \in 1..MaxOutcomeLines}}

InitOutcome ==
    /\ arg \in [log_text : OutcomeLogs]
    /\ ret = None
    /\ pc = "call"
    /\ budget = None
    /\ NoBudgetCalls
    /\ NoScan

\* The outcomes asked for the names of failures.
OutcomesOf(failures, log_text) ==
    [k \in DOMAIN failures |-> FindTestOutcome(log_text, failures[k].test_name)]

CallOutcome ==
    /\ pc = "call"
    /\ pc' = "returned"
    /\ ret' = [failures |-> extract_test_failures_from_log(arg.log_text, ""),
               outcomes |-> OutcomesOf(extract_test_failures_from_log(arg.log_text, ""),
                                       arg.log_text)]
    /\ UNCHANGED <<arg, budgetVars, scanVars>>

NextOutcome == CallOutcome

SpecOutcome == InitOutcome /\ [][NextOutcome]_vars

(***************************************************************************)
(* Claims about the budget (SpecBudget).                                   *)
(***************************************************************************)

\* C1 (as stated): once the exhausted flag is set, every later can_fetch_log
\* call returns false, whatever its estimated_size.
C1_ExhaustedDeniesEveryEstimate ==
    [][budget.exhausted => (call'.op = "can_fetch_log" => ~call'.ret)]_vars

\* C1 (amended): once can_fetch_log has denied an estimate d, every later
\* can_fetch_log call with an estimated_size of at least d is denied, under
\* any interleaving with record_log_fetch calls.
C1_DeniedEstimateStaysDenied ==
    [][\A d \in denied :
          (call'.op = "can_fetch_log" /\ call'.estimated_size >= d) => ~call'.ret]_vars

\* C1 witness: a call is denied again after bytes were recorded past the
\* first denial.
C1_Witness ==
    /\ call.op = "can_fetch_log"
    /\ ~call.ret
    /\ firstDenial >= 0
    /\ budget.total_log_bytes > firstDenial

\* C2: a call is denied exactly when total_log_bytes + estimate exceeds
\* max_log_bytes; exhausted is set exactly when some call was denied; the
\* warnings are the single "Log budget exhausted: <used>/<max> bytes" of the
\* first denial if any call was denied and empty otherwise.
C2_DenialAndSingleWarning ==
    /\ call.op = "can_fetch_log" =>
          (~call.ret <=> budget.total_log_bytes + call.estimated_size > budget.max_log_bytes)
    /\ budget.exhausted <=> denied # {}
    /\ budget.warnings = IF denied = {} THEN << >>
                         ELSE << [text |-> "Log budget exhausted",
                                  used |-> firstDenial,
                                  max  |-> budget.max_log_bytes] >>

\* C2 witness: a second, different estimate has just been denied and the
\* warnings still hold one entry.
C2_Witness ==
    /\ call.op = "can_fetch_log"
    /\ ~call.ret
    /\ Cardinality(denied) >= 2
    /\ budget.total_log_bytes > firstDenial
    /\ Len(budget.warnings) = 1

(***************************************************************************)
(* Claims about the history engine (SpecHistory, SpecHistoryLive).         *)
(***************************************************************************)
\* fetches[i] and fetches[j] are log fetches of the same build.
SameBuild(i, j) == fetches[i].build = fetches[j].build

\* C3: during one get_test_history invocation total_log_bytes never
\* decreases, and once exhausted is set no step calls get_job_log any more.
C3_BytesGrowAndNoFetchOnceExhausted ==
    [][/\ budget'.total_log_bytes >= budget.total_log_bytes
       /\ budget.exhausted => fetches' = fetches]_vars

\* C3 witness: the budget was exhausted after at least one log was fetched,
\* while a failed job of the current build is still unsearched.
C3_Witness ==
    /\ budget.exhausted
    /\ pc = "failed"
    /\ ji <= Len(failed_jobs)
    /\ fetches # << >>
    /\ budget.total_log_bytes > 0

\* C4: an invocation whose budget is exhausted goes on to return, and what
\* it returns is no error record: it holds the timeline collected so far,
\* an assessment, a summary and a non-empty warnings list.
C4_ExhaustedStillReturnsResult ==
    /\ [](pc = "done" /\ budget.exhausted =>
            /\ DOMAIN result = {"timeline", "assessment", "summary", "warnings"}
            /\ result.timeline = timeline
            /\ result.assessment = assess_test_history(timeline)
            /\ result.summary = generate_summary(timeline, result.assessment)
            /\ result.warnings # << >>)
    /\ (budget.exhausted ~> pc = "done")

\* C4 witness: the invocation returned with the budget exhausted, a build
\* recorded and a later build left unscanned.
C4_Witness ==
    /\ pc = "done"
    /\ budget.exhausted
    /\ Len(timeline) >= 1
    /\ Len(builds_parsed) > Len(timeline)
    /\ result.timeline = timeline

\* C5: the timeline, while it is built and as it is returned, is ordered by
\* created_at, oldest first.
C5_TimelineOldestFirst ==
    /\ \A i, j \in DOMAIN timeline :
           i < j => timeline[i].created_at <= timeline[j].created_at
    /\ (pc = "done" /\ "timeline" \in DOMAIN result) =>
           \A i, j \in DOMAIN result.timeline :
               i < j => result.timeline[i].created_at <= result.timeline[j].created_at

\* C5 witness: the API listed the newer build first, and the returned
\* timeline starts with the older one, listed second.
C5_Witness ==
    /\ pc = "done"
    /\ "timeline" \in DOMAIN result
    /\ Len(result.timeline) = 2
    /\ result.timeline[1].build_number = BuildNumber(2)
    /\ result.timeline[2].build_number = BuildNumber(1)
    /\ result.timeline[1].created_at < result.timeline[2].created_at

\* C6: within a build no passed job's log is fetched before a failed
\* job's, a passed job's log is fetched only if no failed job of the build
\* reported the test as found, and only while the budget is not exhausted.
C6_FailedJobsFirst ==
    /\ [](\A i, j \in DOMAIN fetches :
            (i < j /\ SameBuild(i, j) /\ fetches[j].state = "passed") =>
                (fetches[i].state = "failed" => ~fetches[i].found))
    /\ [](\A i, j \in DOMAIN fetches :
            (i < j /\ SameBuild(i, j) /\ fetches[i].state = "passed") =>
                fetches[j].state = "passed")
    /\ [][(fetches' # fetches /\ fetches'[Len(fetches')].state = "passed") =>
             ~budget.exhausted]_vars

\* C6 witness: the API listed a passed job before a failed one; the failed
\* job's log was fetched first and did not hold the test, then the passed
\* job's log was fetched.
C6_Witness ==
    \E i, j \in DOMAIN fetches :
        /\ i < j
        /\ SameBuild(i, j)
        /\ fetches[i].state = "failed"
        /\ ~fetches[i].found
        /\ fetches[j].state = "passed"
        /\ fetches[j].job < fetches[i].job

(***************************************************************************)
(* Claims about the assessor (SpecAssess).  The claims' notions are        *)
(* defined here on their own, over the argument of the call.               *)
(***************************************************************************)
\* The entries of arg with test_found, oldest first.
FoundEntries == SelectSeq(arg, LAMBDA t : t.test_found)

\* Number of failing entries among found[a+1..b] (the code's found[a:b]).
FailsIn(found, a, b) == Cardinality({k \in (a + 1)..b : found[k].test_status = "fail"})

\* The indices i in [1, |found|) with fail rate of found[0..i) < 0.2 and of
\* found[i..) > 0.8.
TransitionIndices(found) ==
    {i \in 1..(Len(found) - 1) :
        /\ 5 * FailsIn(found, 0, i) < i
        /\ 5 * FailsIn(found, i, Len(found)) > 4 * (Len(found) - i)}

Smallest(S) == CHOOSE i \in S : \A k \in S : i <= k

\* The (entry, job) positions in found[i..) that carry a fingerprint of a
\* failing entry.
FingerprintSlots(found, i) ==
    {<<e, j>> \in ((i + 1)..Len(found)) \X (1..2) :
        /\ found[e].test_status = "fail"
        /\ j <= Len(found[e].jobs)
        /\ found[e].jobs[j].fingerprint_normalized # None}

\* Some fingerprint accounts for more than 80% of the fingerprints of the
\* failing entries of found[i..).
ModalFingerprintAbove80(found, i) ==
    LET slots == FingerprintSlots(found, i)
        fp(p) == found[p[1]].jobs[p[2]].fingerprint_normalized
    IN  \E p \in slots :
            5 * Cardinality({q \in slots : fp(q) = fp(p)}) > 4 * Cardinality(slots)

IsRegression(found) ==
    /\ Len(found) >= 3
    /\ TransitionIndices(found) # {}
    /\ ModalFingerprintAbove80(found, Smallest(TransitionIndices(found)))

\* C7: fewer than 3 entries with test_found give INSUFFICIENT_DATA / LOW,
\* whatever the length of the timeline, the statuses and the fingerprints.
C7_InsufficientData ==
    (pc = "returned" /\ Len(FoundEntries) < 3) =>
        (ret.classification = "INSUFFICIENT_DATA" /\ ret.confidence = "LOW")

\* C7 witness: a timeline of 5 entries, 2 of them found and failing with a
\* fingerprint, has been assessed.
C7_Witness ==
    /\ pc = "returned"
    /\ Len(arg) = 5
    /\ Len(FoundEntries) = 2
    /\ \A k \in 1..2 : FoundEntries[k].test_status = "fail"
    /\ ret.classification = "INSUFFICIENT_DATA"

\* C8: the result is REGRESSION exactly when at least 3 entries are found,
\* a transition index exists and the modal fingerprint after the smallest
\* one exceeds 80%; it then has confidence HIGH and transition_build =
\* found[i].build_number; in every other case transition_build is null.
C8_RegressionExactly ==
    pc = "returned" =>
        /\ ret.classification = "REGRESSION" <=> IsRegression(FoundEntries)
        /\ ret.classification = "REGRESSION" =>
              /\ ret.confidence = "HIGH"
              /\ ret.transition_build =
                    FoundEntries[Smallest(TransitionIndices(FoundEntries)) + 1].build_number
        /\ ret.classification # "REGRESSION" => ret.transition_build = None

\* C8 witness: a REGRESSION with more than one transition index, so that
\* the smallest one decides transition_build.
C8_Witness ==
    /\ pc = "returned"
    /\ ret.classification = "REGRESSION"
    /\ Cardinality(TransitionIndices(FoundEntries)) >= 2

\* C9: with at least 3 found entries and no REGRESSION, the overall fail
\* rate fixes the result: FLAKE_ONSET/MED in [0.2, 0.8] with more than one
\* distinct fingerprint, SPORADIC/MED in [0.2, 0.8] otherwise,
\* PERSISTENT_FAIL/HIGH above 0.8, SPORADIC/HIGH below 0.2.
C9_FailRateBands ==
    LET found == FoundEntries
        n == Len(found)
        f == FailsIn(found, 0, n)
        distinct == {found[p[1]].jobs[p[2]].fingerprint_normalized :
                        p \in FingerprintSlots(found, 0)}
    IN  (pc = "returned" /\ n >= 3 /\ ret.classification # "REGRESSION") =>
            /\ (5 * f >= n /\ 5 * f <= 4 * n /\ Cardinality(distinct) > 1) =>
                  (ret.classification = "FLAKE_ONSET" /\ ret.confidence = "MED")
            /\ (5 * f >= n /\ 5 * f <= 4 * n /\ Cardinality(distinct) <= 1) =>
                  (ret.classification = "SPORADIC" /\ ret.confidence = "MED")
            /\ 5 * f > 4 * n =>
                  (ret.classification = "PERSISTENT_FAIL" /\ ret.confidence = "HIGH")
            /\ 5 * f < n =>
                  (ret.classification = "SPORADIC" /\ ret.confidence = "HIGH")

\* C9 witness: a fail rate of exactly 0.8 (4 of 5) with a transition index
\* but without a modal fingerprint above 80% lands in the MED band.
C9_Witness ==
    /\ pc = "returned"
    /\ Len(FoundEntries) = 5
    /\ FailsIn(FoundEntries, 0, 5) = 4
    /\ TransitionIndices(FoundEntries) # {}
    /\ ret.classification = "FLAKE_ONSET"
    /\ ret.confidence = "MED"

(***************************************************************************)
(* Claims about the classifier (SpecClassify).  The claim's notions are    *)
(* defined here on their own, over the arguments of the call.              *)
(***************************************************************************)
InfraWords ==
    {"timeout", "timed out", "connection refused", "network error",
     "no space left on device", "disk full", "out of memory", "oom",
     "cuda out of memory", "killed by signal", "sigkill",
     "cannot allocate memory", "failed to download", "download error",
     "agent lost", "lost connection to agent"}

FlakyWords == {"flaky", "intermittent", "passed on retry"}

\* Some word occurs in the text, whatever the case of its letters.
MatchesAny(words, text) == \E w \in words : Contains(Lower(text), w)

\* The non-empty ones of error_message, stack_trace and log_snippet: the
\* haystack holds each of them on lines of its own, so that no match runs
\* from one into the next.
HaystackParts(failure) ==
    {x \in {failure.error_message, failure.stack_trace, failure.log_snippet} :
        x # None /\ x # ""}

\* The issue search was skipped or no issue it returned is accepted.
NoAcceptedIssue ==
    \/ ~arg.search_github
    \/ \A r \in {arg.exact, arg.broad} :
          r # CLIError => \A k \in DOMAIN r.issues : ~Accepted(r.issues[k], arg.failure)

\* C10: with the issue search skipped or without an accepted issue, the
\* category is INFRA_SUSPECTED (0.7) if an infra pattern matches the
\* haystack; otherwise FLAKY_SUSPECTED (0.6) if a flaky pattern matches the
\* haystack or the test name; otherwise NEW_REGRESSION (0.5) if
\* error_message is non-empty; otherwise NEEDS_HUMAN_TRIAGE (0.3).
C10_OrderedFirstMatch ==
    (pc = "returned" /\ NoAcceptedIssue) =>
        LET failure == arg.failure
            infra == \E x \in HaystackParts(failure) : MatchesAny(InfraWords, x)
            flaky == \/ MatchesAny(FlakyWords, failure.test_name)
                     \/ \E x \in HaystackParts(failure) : MatchesAny(FlakyWords, x)
            hasError == failure.error_message # None /\ failure.error_message # ""
        IN  /\ ret.category =
                  IF infra THEN "INFRA_SUSPECTED"
                  ELSE IF flaky THEN "FLAKY_SUSPECTED"
                  ELSE IF hasError THEN "NEW_REGRESSION"
                  ELSE "NEEDS_HUMAN_TRIAGE"
            /\ ret.confidence =
                  IF infra THEN 70 ELSE IF flaky THEN 60 ELSE IF hasError THEN 50 ELSE 30
            /\ ret.github_issue = None

\* C10 witness: the search ran and accepted no issue; the error message
\* holds both an infra and a flaky pattern and the test name a flaky one:
\* the failure is INFRA_SUSPECTED at 0.7.
C10_Witness ==
    /\ pc = "returned"
    /\ arg.search_github
    /\ arg.broad # CLIError
    /\ arg.broad.issues # << >>
    /\ NoAcceptedIssue
    /\ arg.failure.error_message = "intermittent OOM"
    /\ arg.failure.test_name = "t.py::test_flaky_io"
    /\ ret.category = "INFRA_SUSPECTED"
    /\ ret.confidence = 70

\* The issue carries the ci-failure label, in whatever case.
HasCiFailureLabel(issue) ==
    \E k \in DOMAIN issue.labels : Lower(issue.labels[k]) = "ci-failure"

\* The confidence the issue validates at for the failure of the call.
ValidatedAt(issue) == validate_issue_match(issue, arg.failure).confidence

\* The candidates of a search that are accepted, in returned order.
AcceptedCandidates(search) ==
    IF search = CLIError THEN << >>
    ELSE SelectSeq(search.issues,
                   LAMBDA issue : HasCiFailureLabel(issue) /\ ValidatedAt(issue) >= 60)

\* C11: a failure is KNOWN_TRACKED only through a ci-failure labelled issue
\* validating at 0.6 or more: the first accepted candidate of the exact
\* query if there is one, otherwise an accepted candidate of the broad
\* query of the highest confidence; without an accepted candidate, or
\* without the search, the failure is not KNOWN_TRACKED.
C11_KnownTrackedOnlyByAcceptedIssue ==
    pc = "returned" =>
        LET exact == AcceptedCandidates(arg.exact)
            broad == AcceptedCandidates(arg.broad)
        IN  IF arg.search_github /\ exact # << >>
            THEN /\ ret.category = "KNOWN_TRACKED"
                 /\ ret.github_issue = exact[1].url
                 /\ ret.confidence = ValidatedAt(exact[1])
            ELSE IF arg.search_github /\ broad # << >>
            THEN /\ ret.category = "KNOWN_TRACKED"
                 /\ \E k \in DOMAIN broad :
                       /\ ret.github_issue = broad[k].url
                       /\ ret.confidence = ValidatedAt(broad[k])
                       /\ \A m \in DOMAIN broad : ValidatedAt(broad[m]) <= ValidatedAt(broad[k])
            ELSE ret.category # "KNOWN_TRACKED"

\* C11 witness: the exact query returned a wrongly labelled and a
\* label-only issue, the broad query a label-only one, one matching by job
\* name and one matching by test name: the last one is used, at 0.9.
C11_Witness ==
    /\ pc = "returned"
    /\ arg.search_github
    /\ arg.exact # CLIError
    /\ Len(arg.exact.issues) = 2
    /\ AcceptedCandidates(arg.exact) = << >>
    /\ Len(AcceptedCandidates(arg.broad)) = 2
    /\ ret.category = "KNOWN_TRACKED"
    /\ ret.github_issue = arg.broad.issues[3].url
    /\ ret.confidence = 90

(***************************************************************************)
(* Claims about deduplicate_failures (SpecDedup).                          *)
(***************************************************************************)
\* arg[i] is the first entry of arg with its key.
FirstOfItsKey(i) == \A j \in 1..(i - 1) : arg[j].failure_key # arg[i].failure_key

C13_LogsOnlyForFailedJobs ==
    /\ Len(fetches) <= MAX_FAILED_JOBS_TO_PROCESS
    /\ \A k \in DOMAIN fetches : fetches[k].state = "failed"
    /\ \A k \in 1..(Len(fetches) - 1) : fetches[k].job < fetches[k + 1].job

(***************************************************************************)
(* C14.  scan_latest_nightly selects the first listed build that is        *)
(* scheduled and in an analyzable state; failing that the first scheduled  *)
(* build whatever its state; failing that the first build in an            *)
(* analyzable state; failing that the first listed build.                  *)
(***************************************************************************)
FirstIndex(S) == CHOOSE k \in S : \A m \in S : k <= m

ScheduledAt == {k \in DOMAIN arg : arg[k].source = "schedule"}
AnalyzableAt ==
    {k \in DOMAIN arg : arg[k].state \in {"passed", "failed", "failing", "canceled"}}

C14_SelectsNightlyThenScheduledThenAnalyzable ==
    (pc = "returned" /\ arg # << >>) =>
        ret.build_number =
            arg[IF ScheduledAt \cap AnalyzableAt # {}
                THEN FirstIndex(ScheduledAt \cap AnalyzableAt)
                ELSE IF ScheduledAt # {} THEN FirstIndex(ScheduledAt)
                ELSE IF AnalyzableAt # {} THEN FirstIndex(AnalyzableAt)
                ELSE 1].number

\* A list without an analyzable scheduled build, with a scheduled build
\* and with an analyzable build: the scheduled one was selected.
C14_Witness ==
    /\ pc = "returned"
    /\ ScheduledAt # {} /\ AnalyzableAt # {} /\ ScheduledAt \cap AnalyzableAt = {}
    /\ ret.build_number = arg[FirstIndex(ScheduledAt)].number
    /\ ret.state = "running"

\* C14 as stated: without an analyzable scheduled build the source filter
\* is relaxed, so the selected build is analyzable whenever a listed build is.
C14_SelectedIsAnalyzableWheneverPossible ==
    (pc = "returned" /\ arg # << >>) =>
        /\ ScheduledAt \cap AnalyzableAt # {} =>
               ret.build_number = arg[FirstIndex(ScheduledAt \cap AnalyzableAt)].number
        /\ AnalyzableAt # {} =>
               ret.state \in {"passed", "failed", "failing", "canceled"}

(***************************************************************************)
(* C15.  _match_job_by_name returns a job exactly when the match is        *)
(* unambiguous: under "exact" iff exactly one job's name equals the input, *)
(* under "fuzzy" iff exactly one job's name contains the input whatever    *)
(* the case, under "id" iff a job has that id.  Otherwise it returns no    *)
(* job and an error message; it never returns both, and the returned job   *)
(* is a job of the list that satisfies the predicate of the strategy.      *)
(***************************************************************************)
NameOf(j) == IF "name" \in DOMAIN j THEN j.name ELSE ""

Satisfies(j) ==
    \/ arg.strategy = "id" /\ j.id = arg.job_name_or_id
    \/ arg.strategy = "exact" /\ "name" \in DOMAIN j /\ j.name = arg.job_name_or_id
    \/ arg.strategy = "fuzzy"
       /\ \E i \in 1..(Len(NameOf(j)) + 1) :
              /\ i + Len(arg.job_name_or_id) - 1 <= Len(NameOf(j))
              /\ Lower(SubSeq(NameOf(j), i, i + Len(arg.job_name_or_id) - 1))
                 = Lower(arg.job_name_or_id)

SatisfiedAt == {k \in DOMAIN arg.jobs : Satisfies(arg.jobs[k])}

IsErrorRecord(r) == "error" \in DOMAIN r
IsResult(r) == "result" \in DOMAIN r \/ r = [text |-> "rendered"]

C16_ToolsReturnAndRenderAnswersText ==
    /\ <>(pc = "done")
    /\ [](pc # "raised")
    /\ [](pc = "done" =>
            IF arg.tool = "render" THEN DOMAIN result = {"text"}
            ELSE /\ IsResult(result) \/ IsErrorRecord(result)
                 /\ (arg.tool \in {"scan_latest_nightly", "scan_build"}
                       /\ IsErrorRecord(result)) => DOMAIN result = {"error"})

\* A scan whose second job log raises an unexpected exception returns the
\* error alone.
C16_Witness ==
    /\ pc = "done"
    /\ arg.tool = "scan_latest_nightly"
    /\ Body(arg.tool)[step].callee = "get_job_log"
    /\ step > 4
    /\ result = [error |-> "Unexpected error: Exception"]

\* C16 as stated: every tool, render included, returns a result or an
\* error record.
C16_EveryToolReturnsResultOrErrorRecord ==
    pc = "done" => (IsResult(result) \/ IsErrorRecord(result))


(***************************************************************************)
(* C17: normalize_failure_fingerprint is idempotent: normalizing the       *)
(* normalized message again changes nothing.                               *)
(***************************************************************************)
C17_NormalizeIsIdempotent ==
    pc = "returned" => normalize_failure_fingerprint(ret) = ret

\* A message in which all five substitutions acted.
C17_Witness ==
    /\ pc = "returned"
    /\ arg = "id 123e4567-e89b-12d3-a456-426614174000 at 2024-01-22 10:00:00 0x7f8a3c 0.590 42"
    /\ ret = "id <UUID> at <TIMESTAMP> <ADDR> <NUM> <NUM>"


(***************************************************************************)
(* C18: two failures receive the same failure key exactly when their       *)
(* triples (job name lowercased with spaces replaced by underscores, test  *)
(* name, first line of the error message cut to 100 characters and left    *)
(* out without an error message) are equal.                                *)
(***************************************************************************)
KeyTriple(failure) ==
    <<Replace(Lower(failure.job_name), " ", "_"), failure.test_name>>
    \o (IF Truthy(failure.error_message)
        THEN <<Prefix(Split(failure.error_message, "\n")[1], 100)>>
        ELSE << >>)

C18_SameKeyExactlyForSameTriple ==
    pc = "returned" =>
        ((KeyTriple(arg[1]) = KeyTriple(arg[2])) <=> (ret[1] = ret[2]))


(***************************************************************************)
(* C19: extract_test_failures_from_log returns a non-empty list for every  *)
(* log, and when neither the FAILED/ERROR patterns nor the short-summary   *)
(* fallback find a nodeid it returns exactly one failure, named after the  *)
(* job, with the fixed error message and the last 500 characters of the    *)
(* log as snippet.                                                         *)
(***************************************************************************)
C19_NonEmptyAndJobLevelFailureWithoutNodeids ==
    pc = "returned" =>
        /\ Len(ret) >= 1
        /\ unique_failed_tests(arg.log_text) = << >> =>
              LET n == Len(arg.log_text)
              IN  ret = <<[test_name |-> arg.job_name,
                           job_name |-> arg.job_name,
                           error_message |-> "Job failed without pytest test names",
                           stack_trace |-> None,
                           log_snippet |-> IF n <= 500 THEN arg.log_text
                                           ELSE SubSeq(arg.log_text, n - 499, n)]>>

\* A log of more than 500 characters that names FAILED but no nodeid.
C19_Witness ==
    /\ pc = "returned"
    /\ Len(arg.log_text) > 500
    /\ StartsWith(arg.log_text, 1, "FAILED a.py\n")
    /\ Len(ret) = 1
    /\ ret[1].test_name = arg.job_name
    /\ Len(ret[1].log_snippet) = 500


(***************************************************************************)
(* C20: in every state of a get_test_history invocation the bytes the      *)
(* budget has recorded do not exceed max_log_bytes, whatever the sizes of  *)
(* the fetched logs.                                                       *)
(***************************************************************************)
C20_TotalWithinMaxLogBytes ==
    budget.total_log_bytes <= budget.max_log_bytes


(***************************************************************************)
(* C21: in every timeline entry test_status is fail exactly when a         *)
(* recorded job outcome is fail, pass exactly when the test was found and  *)
(* no recorded outcome is fail, unknown exactly when test_found is false;  *)
(* and test_found is true exactly when the entry's jobs list is not empty. *)
(***************************************************************************)
SomeJobFailed(entry) == \E k \in DOMAIN entry.jobs : entry.jobs[k].status = "fail"

C21_EntryStatusFollowsJobOutcomes ==
    \A i \in DOMAIN timeline :
        LET entry == timeline[i] IN
        /\ entry.test_status = "fail" <=> SomeJobFailed(entry)
        /\ entry.test_status = "pass" <=> (entry.test_found /\ ~SomeJobFailed(entry))
        /\ entry.test_status = "unknown" <=> ~entry.test_found
        /\ entry.test_found <=> entry.jobs # << >>

\* An entry in which a failing job was followed by a passing one.
C21_Witness ==
    \E i \in DOMAIN timeline :
        /\ Len(timeline[i].jobs) = 2
        /\ timeline[i].jobs[1].status = "fail"
        /\ timeline[i].jobs[2].status = "pass"
        /\ timeline[i].test_status = "fail"


(***************************************************************************)
(* C22: for every build the history engine scans, the job logs fetched for *)
(* that build, failed and passed jobs together, never number more than     *)
(* max_jobs_per_build.                                                     *)
(***************************************************************************)
FetchesOf(b) == {i \in DOMAIN fetches : fetches[i].build = b}

C22_FetchesPerBuildWithinMaxJobs ==
    \A i \in DOMAIN fetches :
        Cardinality(FetchesOf(fetches[i].build)) <= budget.max_jobs_per_build

\* A build of 22 jobs of which all 19 failed jobs and one passed job were
\* fetched, and whose scan is over.
C22_Witness ==
    \E i \in DOMAIN timeline :
        LET F == FetchesOf(timeline[i].build_number) IN
        /\ Cardinality(F) = budget.max_jobs_per_build
        /\ \E k \in F : fetches[k].state = "failed"
        /\ \E k \in F : fetches[k].state = "passed"


(***************************************************************************)
(* C23: when get_job_log raises BuildkiteAPIError for one job of a build   *)
(* scan or of a history scan, that job alone is skipped: the step adds no  *)
(* failure, no outcome and no bytes and moves on to the next job, the scan *)
(* that ends fetched every job it had to process, and no invocation that   *)
(* fetched a log returns the API error as an error record.                 *)
(***************************************************************************)
LastFetchRaised ==
    /\ Len(fetches') = Len(fetches) + 1
    /\ fetches'[Len(fetches')].raised

C23_FailedLogFetchSkipsOnlyThatJob ==
    /\ [][LastFetchRaised =>
            /\ ji' = ji + 1
            /\ pc' = pc
            /\ result' = result
            /\ all_failures' = all_failures
            /\ outcome' = outcome
            /\ timeline' = timeline
            /\ budget' = budget]_vars
    /\ [](pc = "done" /\ fetches # << >> =>
            IF IsScan
            THEN IF "error" \in DOMAIN result
                 THEN result.error = "Unexpected error: " \o UnexpectedError.error
                 ELSE Len(fetches) = Len(JobsToProcess(job_infos))
            ELSE /\ "error" \notin DOMAIN result
                 /\ Len(result.timeline) = Len(builds_parsed) \/ budget.exhausted)

\* A build scan whose first log could not be fetched returned the failures
\* of its second job.
C23_Witness ==
    /\ pc = "done"
    /\ IsScan
    /\ Len(fetches) = 2
    /\ fetches[1].raised
    /\ ~fetches[2].raised
    /\ "error" \notin DOMAIN result
    /\ result.failures # << >>


(***************************************************************************)
(* C24: for a nodeid that has a scope, a suite test is counted as a match  *)
(* only if its scope equals the scope of the nodeid and the names or the   *)
(* parameter-stripped base names are equal; a test with another scope, an  *)
(* empty scope or no scope is never a match.                               *)
(***************************************************************************)
C24_MatchOnlyWithEqualScope ==
    (pc = "returned" /\ arg.scope # "") =>
        \A k \in DOMAIN ret :
            /\ "scope" \in DOMAIN ret[k]
            /\ ret[k].scope = arg.scope
            /\ \/ ret[k].name = arg.test_name
               \/ Split(ret[k].name, "[")[1] = Split(arg.test_name, "[")[1]

\* The position at which name first occurs in log_text, 0 when it does not.
FirstPosition(log_text, name) ==
    LET I == {i \in 1..Len(log_text) : StartsWith(log_text, i, name)}
    IN  IF I = {} THEN 0 ELSE CHOOSE i \in I : \A j \in I : i <= j

\* The index of the first element of seq equal to x, 0 when there is none.
FirstIndexOf(seq, x) ==
    LET I == {i \in DOMAIN seq : seq[i] = x}
    IN  IF I = {} THEN 0 ELSE CHOOSE i \in I : \A j \in I : i <= j

\* C25 (as amended): the failures returned for one log contain no repeated
\* test_name; when the log has FAILED or ERROR matches the names are exactly
\* the matched names, ordered by first occurrence in the list of the FAILED
\* matches in log order followed by the ERROR matches in log order.
C25_NoRepeatsFailedMatchesBeforeErrorMatches ==
    pc = "returned" =>
        LET matched == StripEach(FindAll(PYTEST_FAILED_PATTERN, arg.log_text, 1))
                       \o StripEach(FindAll(PYTEST_ERROR_PATTERN, arg.log_text, 1))
        IN  /\ \A i, j \in DOMAIN ret : ret[i].test_name = ret[j].test_name => i = j
            /\ matched # << >> =>
                   /\ {ret[i].test_name : i \in DOMAIN ret}
                          = {matched[k] : k \in DOMAIN matched}
                   /\ \A i, j \in DOMAIN ret :
                          i < j => FirstIndexOf(matched, ret[i].test_name)
                                       < FirstIndexOf(matched, ret[j].test_name)

\* An ERROR line of one test stands before the FAILED line of another and
\* both tests are returned, the FAILED one first.
C25_Witness ==
    /\ pc = "returned"
    /\ Len(ret) = 2
    /\ ret[1].test_name = "a.py::t1"
    /\ ret[2].test_name = "b.py::t2"
    /\ StartsWith(arg.log_text, 1, "ERROR b.py::t2")
    /\ FirstPosition(arg.log_text, "FAILED a.py::t1") > 0

\* C25 (as claimed): no repeated test_name, and the failures are ordered by
\* the position at which each nodeid first occurs in the log.
C25_OrderedByFirstOccurrenceInLog ==
    pc = "returned" =>
        /\ \A i, j \in DOMAIN ret : ret[i].test_name = ret[j].test_name => i = j
        /\ \A i, j \in DOMAIN ret :
               i < j => FirstPosition(arg.log_text, ret[i].test_name)
                            < FirstPosition(arg.log_text, ret[j].test_name)

\* C26 (as amended): in every reachable state of a test-history invocation
\* the Budget's warnings hold at most two messages: at most one "Log budget
\* exhausted" message, first and only once the budget is exhausted, and after
\* it at most one "Stopped scanning after N builds" message, which the
\* invocation adds when it returns with builds left unscanned; the warnings
\* field of the returned result is that list.
C26_WarningsAtMostExhaustedThenStopped ==
    /\ Len(budget.warnings) <= 2
    /\ Len(budget.warnings) >= 1 =>
           /\ budget.exhausted
           /\ budget.warnings[1].text = "Log budget exhausted"
    /\ Len(budget.warnings) = 2 =>
           /\ pc = "done"
           /\ budget.warnings[2] = [text |-> "Stopped scanning (budget exhausted)",
                                     builds |-> Len(timeline)]
           /\ Len(timeline) < Len(builds_parsed)
    /\ (pc = "done" /\ "warnings" \in DOMAIN result) => result.warnings = budget.warnings

\* The invocation has returned with both messages in the warnings.
C26_Witness ==
    /\ pc = "done"
    /\ "warnings" \in DOMAIN result
    /\ Len(result.warnings) = 2

\* C26 (as claimed): the warnings list holds at most one message in every
\* reachable state, and so does the warnings field of the result.
C26_WarningsAtMostOne ==
    /\ Len(budget.warnings) <= 1
    /\ (pc = "done" /\ "warnings" \in DOMAIN result) => Len(result.warnings) <= 1

\* C28: within one build, after the log of some job has reported the test
\* as found, no further job log of that build is fetched.
C28_NoFetchInBuildAfterFound ==
    \A i, j \in DOMAIN fetches :
        (i < j /\ fetches[i].build = fetches[j].build) => ~fetches[i].found

\* C30: the timeline is always a prefix of the fetched builds sorted oldest
\* first, with exactly one entry per scanned build, also for a build whose
\* job list could not be fetched; the builds without an entry are no older
\* than any build with one, they exist at the return only when the budget is
\* exhausted, and the assessment returned is computed on that prefix.
C30_TimelineIsPrefixOfSortedBuilds ==
    /\ \A i, j \in DOMAIN builds_parsed :
           i < j => builds_parsed[i].created_at <= builds_parsed[j].created_at
    /\ Len(timeline) <= Len(builds_parsed)
    /\ \A k \in DOMAIN timeline :
           /\ timeline[k].build_number = builds_parsed[k].build_number
           /\ timeline[k].created_at = builds_parsed[k].created_at
    /\ pc \in {"scan", "failed", "passed"} => Len(timeline) = bi - 1
    /\ \A k \in DOMAIN timeline :
           \A m \in (Len(timeline) + 1)..Len(builds_parsed) :
               timeline[k].created_at <= builds_parsed[m].created_at
    /\ (pc = "done" /\ builds_parsed # << >>) =>
           /\ result.timeline = timeline
           /\ result.assessment = assess_test_history(timeline)
           /\ Len(timeline) < Len(builds_parsed) => budget.exhausted

\* The API listed the newer build first and the budget ran out in the older
\* one: the invocation returned a timeline holding the older build alone,
\* assessed as a single run.
C30_Witness ==
    /\ pc = "done"
    /\ budget.exhausted
    /\ Len(builds_parsed) = 2
    /\ builds_parsed[1].build_number = BuildNumber(2)
    /\ builds_parsed[1].created_at < builds_parsed[2].created_at
    /\ Len(result.timeline) = 1
    /\ result.timeline[1].build_number = BuildNumber(2)
    /\ result.assessment = assess_test_history(<<result.timeline[1]>>)

(***************************************************************************)
(* get_test_history run alone, from its first line to its return, against  *)
(* the answers of one client.                                              *)
(***************************************************************************)
RECURSIVE AloneJobs(_, _, _, _, _, _)
\* What find_test_in_job returned for jobs[i] is taken in, then on to the
\* next job.
AloneJob(jobs, i, build_number, o, r, api) ==
    AloneJobs(jobs, i + 1, build_number, UpdateOutcome(o, r.result), r.budget, api)

\* One job loop of find_test_in_build from jobs[i] on: the outcome and the
\* budget after it.
AloneJobs(jobs, i, build_number, o, b, api) ==
    IF i > Len(jobs) \/ b.exhausted THEN [outcome |-> o, budget |-> b]
    ELSE AloneJob(jobs, i, build_number, o,
                  find_test_in_job(build_number, jobs[i], b, api.logs[jobs[i].id]),
                  api)

\* The passed jobs after the failed jobs left f.
AlonePassedJobs(passed, build_number, f, api) ==
    IF SearchPassedJobs(f.outcome, f.budget)
    THEN AloneJobs(passed, 1, build_number, f.outcome, f.budget, api)
    ELSE f

\* find_test_in_build on the filtered jobs of a build.
AloneJobLoops(jobs, build_number, b, api) ==
    AlonePassedJobs(PassedJobsOf(jobs, b), build_number,
                    AloneJobs(FailedJobsOf(jobs, b), 1, build_number, TestOutcome, b, api),
                    api)

AloneBuild(build_info, job_filter, b, api) ==
    IF api.build_fails THEN [outcome |-> TestOutcome, budget |-> b]
    ELSE AloneJobLoops(FilterJobs(api.jobs, job_filter), build_info.build_number, b, api)

RECURSIVE AloneBuilds(_, _, _, _, _, _)
\* What find_test_in_build returned for builds[i] is appended, then on to
\* the next build.
AloneEntry(builds, i, tl, r, job_filter, api) ==
    AloneBuilds(builds, i + 1, Append(tl, TimelineEntry(builds[i], r.outcome)),
                r.budget, job_filter, api)

\* The loop over builds_parsed from builds[i] on, and the return.
AloneBuilds(builds, i, tl, b, job_filter, api) ==
    IF i > Len(builds) THEN HistoryResult(tl, b)
    ELSE IF b.exhausted
    THEN HistoryResult(tl, [b EXCEPT !.warnings = Append(@, StoppedWarning(Len(tl)))])
    ELSE AloneEntry(builds, i, tl, AloneBuild(builds[i], job_filter, b, api),
                    job_filter, api)

RunAlone(a) ==
    IF a.api.list_fails THEN [error |-> APIError.error]
    ELSE IF a.api.builds = << >> THEN NoBuildsResult
    ELSE AloneBuilds(ParseAndSort(a.api.builds), 1, << >>,
                     ResourceBudget(MAX_JOBS_PER_BUILD_FOR_TEST_HISTORY,
                                    MAX_LOG_BYTES_FOR_TEST_HISTORY),
                     a.job_filter, a.api)

\* C27: under any interleaving of two test_history invocations, a step of
\* the one that runs leaves the locals of the other, its budget's
\* total_log_bytes, exhausted and warnings among them, as they were; a
\* change-over hands each invocation its own locals back unchanged; and each
\* invocation returns what it returns when run alone against the same API
\* answers.
C27_InvocationsDoNotInterfere ==
    /\ [](pc = "done" => result = RunAlone(arg))
    /\ [](suspended.pc = "done" => suspended.result = RunAlone(suspended.arg))
    /\ [][IF arg'.id = arg.id
          THEN suspended' = suspended
          ELSE suspended' = Current /\ Current' = suspended]_vars

\* Both invocations are in the middle of a build; the one that waits has
\* exhausted its budget, the one that runs has recorded bytes in its own and
\* can still fetch.
C27_Witness ==
    /\ pc \in {"failed", "passed"}
    /\ suspended.pc \in {"failed", "passed"}
    /\ suspended.budget.exhausted
    /\ Len(suspended.budget.warnings) = 1
    /\ ~budget.exhausted
    /\ budget.warnings = << >>
    /\ budget.total_log_bytes > 0
    /\ budget.total_log_bytes < suspended.budget.total_log_bytes

\* C29: for every nodeid that extract_test_failures_from_log returns from a
\* FAILED or ERROR line of a log, find_test_outcome_in_log for that nodeid
\* and log returns found = true with status fail, also when the log has a
\* PASSED line for the nodeid.
C29_OutcomeAgreesWithExtraction ==
    pc = "returned" =>
        \A k \in DOMAIN ret.failures :
            ret.failures[k].test_name # "" =>
                /\ ret.outcomes[k].found
                /\ ret.outcomes[k].status = "fail"

====
